---- MODULE Spec2Model ----
(***************************************************************************)
(* Format collection in the youtube-dl extractors of this repository:      *)
(* BBCBaseIE._download_media_selector / _process_media_selector (bbc.py)   *)
(* and the protocol loop of TV2IE._real_extract (tv2.py).                  *)
(*                                                                         *)
(* Python values: None is the string "None" for string-valued fields and   *)
(* NoInt for integer-valued ones; an optional dict is a sequence of length *)
(* 0 (None) or 1; a dict is a function from its keys.  A format record is  *)
(* a record holding exactly the keys the code sets.                        *)
(***************************************************************************)
EXTENDS Integers, Sequences, FiniteSets, TLC

VARIABLES
    ie,             \* which extractor runs: "bbc" or "tv2"
    pc,             \* position in the extractor's code
    src_idx,        \* index of the media set (bbc) or protocol (tv2) of the for loop
    formats,        \* the accumulated format list
    subtitles,      \* _download_media_selector: the accumulated subtitle dict
    last_exception, \* _download_media_selector: id of the last tolerated error
    fmts,           \* _process_media_selector: formats
    sttls,          \* _process_media_selector: subtitles (optional dict)
    urls,           \* _process_media_selector: urls
    media,          \* _process_media_selector: the media of the outer loop
    data,           \* TV2IE._real_extract: the playback data of the current protocol
    video_url,      \* TV2IE._real_extract: video_url, unbound before the first item
    requests,       \* the requests made so far, each with its answer
    warning,        \* the message of report_warning, or None
    error,          \* the exception that ended the extraction, or None
    conn,           \* _process_media_selector: the connection of the inner loop
    nmedia,         \* medias consumed so far
    nconn,          \* connections / items / entries consumed so far
    entries,        \* the playlist entries yielded so far
    page,           \* the page a paged playlist is at
    depth,          \* TV5MondePlusIE: the nesting of process_video_files calls
    params,         \* the options of the downloader: which credentials are given
    returned        \* ImdbIE: what the last call of _extract_formats returned (optional list)

\* the variables the media selector and the TV2 loop leave alone
sitevars == <<entries, page, depth, params, returned>>

vars == <<ie, pc, src_idx, formats, subtitles, last_exception, fmts, sttls,
          urls, media, conn, data, video_url, requests, warning, error, nmedia, nconn,
          entries, page, depth, params, returned>>

----------------------------------------------------------------------------
(* Bounds of the model *)

\* medias read in one extraction
MaxMedia == 2
\* connections (bbc) or stream items (tv2) read in one extraction
MaxConn == 2

----------------------------------------------------------------------------
(* Python values *)

None == "None"
NoInt == 0 - 1
NoDict == << >>
Some(d) == << d >>

\* the downloader options when no credentials are given
NoParams == [username |-> None, password |-> None, videopassword |-> None]

\* truth value of a Python str-or-None
Truthy(s) == s \notin {None, ""}

\* a or b, on str-or-None
Or(a, b) == IF Truthy(a) THEN a ELSE b

\* d.get(k) on a record
Get(d, k) == IF k \in DOMAIN d THEN d[k] ELSE None

\* d.update(e)
Update(d, e) == [k \in DOMAIN d \cup DOMAIN e |-> IF k \in DOMAIN e THEN e[k] ELSE d[k]]

\* the raw JSON values of a numeric attribute, and the integer each parses to
IntOf == [z \in {"0"} |-> 0] @@ [z \in {"320"} |-> 320] @@ [z \in {"640"} |-> 640]
         @@ [z \in {"360"} |-> 360] @@ [z \in {"1000"} |-> 1000]

int_or_none(v) == IF v \in DOMAIN IntOf THEN IntOf[v] ELSE NoInt

----------------------------------------------------------------------------
(* Program constants *)

\* BBCBaseIE._MEDIA_SETS
MEDIA_SETS == << "pc", "mobile-table-main" >>

\* the error ids _download_media_selector tolerates
TOLERATED_ERRORS == {"notukerror", "geolocation", "selectionunavailable"}

\* connection.get('application', 'ondemand')
DEFAULT_APPLICATION == "ondemand"

----------------------------------------------------------------------------
(* Inputs: what the site may answer *)

\* marks a key that the JSON object does not hold
Absent == "<absent>"

\* 'result' of a media selection: "ok" stands for no result key
SelectionResults == {"ok", "geolocation", "selectionunavailable", "blocked"}

RawBitrates == {None, "0", "320"}

Medias ==
    [kind : {"video", "audio"}, bitrate : RawBitrates, encoding : {"h264"},
     width : {"640"}, height : {"360"}, media_file_size : {"1000"}]

NoMedia == [kind |-> None]

Hrefs == {None, "h1", "h2"}

Conn(h, k, p, s, t, a) ==
    [href |-> h, kind |-> k, protocol |-> p, supplier |-> s, transferFormat |-> t,
     application |-> a, authString |-> "tok", identifier |-> "path/id", server |-> "host"]

\* connections that differ in what names them
NamingConns ==
    {Conn("h1", k, p, s, None, Absent) :
        k \in {None, "ck"}, p \in {None, "http", "rtmp", "rtsp"}, s \in {None, "cdn"}}

\* connections that differ in where they point
AddressConns ==
    {Conn(h, None, "http", None, None, Absent) : h \in Hrefs}
    \cup {Conn(h, None, "rtmp", None, None, a) : h \in {None, "h1"}, a \in {Absent, "live"}}
    \cup {Conn("h2", None, "https", None, None, Absent)}

\* connections to a manifest or a playlist
ManifestConns ==
    {Conn(h, None, "http", s, t, Absent) :
        h \in {"h1", "h2"}, s \in {None, "cdn"}, t \in {"dash", "hls", "hds"}}
    \cup {Conn(h, None, "http", "asx", None, Absent) : h \in {"h1", "h2"}}
    \cup {Conn("h1", None, "http", "asx", "hls", Absent)}

\* an rtmp connection with its own server, application, authString and identifier
RtmpConns ==
    {[Conn(None, None, "rtmp", None, None, a) EXCEPT
        !.authString = "token123", !.identifier = "path/to/stream", !.server = "fms.example"] :
        a \in {Absent, "a1"}}

Connections == NamingConns \cup AddressConns \cup ManifestConns \cup RtmpConns

NoConn == [href |-> None, kind |-> None]

\* the answers of an adaptive-format expansion called with fatal=False:
\* a list of n variants, or an ExtractorError caused by HTTP status n (0: no status)
MaxVariants == 2
AdapterOutcomes ==
    {[st |-> "ok", n |-> MaxVariants], [st |-> "ok", n |-> 0],
     [st |-> "raise", n |-> 403], [st |-> "raise", n |-> 404], [st |-> "raise", n |-> 0]}

\* the ref hrefs of an ASX document, or a failed download
AsxDocuments == {<< >>, << "r1" >>, << "r1", "r2" >>, << "r2", "r1" >>}

\* what extract_subtitles() gives for a captions media
SubtitleSets ==
    {<< >>, [en |-> << "A" >>], [en |-> << "B" >>, fr |-> << "C" >>]}

----------------------------------------------------------------------------
(* BBCBaseIE._process_media_selector: the pure parts *)

\* a faulty variant: the connection kind is preferred to the supplier
BaseFormatIdKindFirst(supplier, conn_kind, protocol) == Or(Or(conn_kind, supplier), protocol)

\* format_id = supplier or conn_kind or protocol
BaseFormatId(supplier, conn_kind, protocol) == Or(Or(supplier, conn_kind), protocol)

\* a faulty variant: the supplier is not looked at
AppendsBitrateAlways(supplier, bitrate) == bitrate \notin {NoInt, 0}

\* if not supplier and bitrate
AppendsBitrate(supplier, bitrate) == ~Truthy(supplier) /\ bitrate \notin {NoInt, 0}

\* format_id += '-%d' % bitrate, which is a TypeError when format_id is None
DirectFormatId(format_id, supplier, bitrate) ==
    IF AppendsBitrate(supplier, bitrate)
    THEN IF format_id = None THEN "TypeError" ELSE format_id \o "-" \o ToString(bitrate)
    ELSE format_id

\* a faulty variant: the refs are counted from 1
AsxFormatsFromOne(refs, format_id) ==
    [i \in 1..Len(refs) |->
        [url |-> refs[i], format_id |-> "ref" \o ToString(i) \o "_" \o format_id]]

\* [ref.get('href') ...] turned into records 'ref%s_%s' % (i, format_id), i from 0
AsxFormats(refs, format_id) ==
    [i \in 1..Len(refs) |->
        [url |-> refs[i], format_id |-> "ref" \o ToString(i - 1) \o "_" \o format_id]]

\* a faulty variant: HTTP 404 is not swallowed
SwallowsForbiddenOnly(transfer_format, out) ==
    transfer_format = "hls" /\ out.st = "raise" /\ out.n \in {403}

\* the except clause around _extract_m3u8_formats; dash and hds have none
Swallows(transfer_format, out) ==
    transfer_format = "hls" /\ out.st = "raise" /\ out.n \in {403, 404}

\* a faulty variant: width and height are exchanged
MediaFormatSwapped(m, format_id) ==
    LET bitrate == int_or_none(m.bitrate)
        base == [format_id |-> format_id, filesize |-> int_or_none(m.media_file_size)]
    IN  IF m.kind = "video"
        THEN Update(base, [width |-> int_or_none(m.height), height |-> int_or_none(m.width),
                           tbr |-> bitrate, vcodec |-> m.encoding])
        ELSE Update(base, [abr |-> bitrate, acodec |-> m.encoding, vcodec |-> "none"])

\* fmt with the attributes of the enclosing media
MediaFormat(m, format_id) ==
    LET bitrate == int_or_none(m.bitrate)
        base == [format_id |-> format_id, filesize |-> int_or_none(m.media_file_size)]
    IN  IF m.kind = "video"
        THEN Update(base, [width |-> int_or_none(m.width), height |-> int_or_none(m.height),
                           tbr |-> bitrate, vcodec |-> m.encoding])
        ELSE Update(base, [abr |-> bitrate, acodec |-> m.encoding, vcodec |-> "none"])

\* a faulty variant: the application is used for the server and the auth string
\* is left out of app
RtmpFieldsAltered(c) ==
    LET application == IF c.application = Absent THEN DEFAULT_APPLICATION ELSE c.application
        auth_string == c.authString
    IN  [url |-> c.protocol \o "://" \o application \o "/" \o application \o "?" \o auth_string,
         play_path |-> c.identifier,
         app |-> application,
         page_url |-> "http://www.bbc.co.uk",
         player_url |-> "http://www.bbc.co.uk/emp/releases/iplayer/revisions/617463_618125_4/617463_618125_4_emp.swf",
         rtmp_live |-> FALSE,
         ext |-> "flv"]

\* the fields of an rtmp connection
RtmpFields(c) ==
    LET application == IF c.application = Absent THEN DEFAULT_APPLICATION ELSE c.application
        auth_string == c.authString
    IN  [url |-> c.protocol \o "://" \o c.server \o "/" \o application \o "?" \o auth_string,
         play_path |-> c.identifier,
         app |-> application \o "?" \o auth_string,
         page_url |-> "http://www.bbc.co.uk",
         player_url |-> "http://www.bbc.co.uk/emp/releases/iplayer/revisions/617463_618125_4/617463_618125_4_emp.swf",
         rtmp_live |-> FALSE,
         ext |-> "flv"]

\* the else branch: the records (none or one) of a direct or rtmp connection
DirectFormats(m, c) ==
    LET fid == DirectFormatId(BaseFormatId(c.supplier, c.kind, c.protocol),
                              c.supplier, int_or_none(m.bitrate))
        fmt == MediaFormat(m, fid)
    IN  IF c.protocol \in {"http", "https"} THEN << Update(fmt, [url |-> c.href]) >>
        ELSE IF c.protocol = "rtmp" THEN << Update(fmt, RtmpFields(c)) >>
        ELSE << >>

\* the variants an adaptive-format expansion returns, named after the id it is given
Variants(href, id, n) ==
    [i \in 1..n |->
        [url |-> href \o "/v" \o ToString(i),
         format_id |-> IF id = None THEN ToString(i) ELSE id \o "-" \o ToString(i)]]

\* one language at a time: concatenate onto the existing sequence, else insert
MergeSubtitles(d1, d2) ==
    [lang \in DOMAIN d1 \cup DOMAIN d2 |->
        IF lang \in DOMAIN d1
        THEN IF lang \in DOMAIN d2 THEN d1[lang] \o d2[lang] ELSE d1[lang]
        ELSE d2[lang]]

----------------------------------------------------------------------------
(* BBCBaseIE._download_media_selector and _process_media_selector *)

Raise(e) ==
    /\ error' = e
    /\ pc' = "raised"

\* for media_set in self._MEDIA_SETS: the media selection is downloaded and
\* _extract_medias raises MediaSelectionError on its 'result'
DownloadMediaSelection ==
    /\ ie = "bbc" /\ pc = "select" /\ src_idx <= Len(MEDIA_SETS)
    /\ \E result \in SelectionResults :
        /\ requests' = Append(requests, [op |-> "mediaset", name |-> MEDIA_SETS[src_idx],
                                         result |-> result])
        /\ IF result = "ok"
           THEN /\ pc' = "medias"
                /\ fmts' = << >> /\ sttls' = NoDict /\ urls' = {}
                /\ UNCHANGED <<src_idx, last_exception, error>>
           ELSE IF result \in TOLERATED_ERRORS
           THEN /\ last_exception' = result
                /\ src_idx' = src_idx + 1
                /\ UNCHANGED <<pc, fmts, sttls, urls, error>>
           ELSE /\ Raise("ExtractorError:" \o result)
                /\ UNCHANGED <<src_idx, last_exception, fmts, sttls, urls>>
    /\ UNCHANGED <<ie, data, video_url, formats, subtitles, media, conn, warning, nmedia, nconn>>
    /\ UNCHANGED sitevars

\* the download of the media selection itself fails
FailMediaSelection ==
    /\ ie = "bbc" /\ pc = "select" /\ src_idx <= Len(MEDIA_SETS)
    /\ requests' = Append(requests, [op |-> "mediaset", name |-> MEDIA_SETS[src_idx],
                                     result |-> "download failed"])
    /\ Raise("ExtractorError:download")
    /\ UNCHANGED <<ie, data, video_url, src_idx, formats, subtitles, last_exception, fmts, sttls, urls,
                   media, conn, warning, nmedia, nconn>>
    /\ UNCHANGED sitevars

\* for media in ...: a video or audio media
NextMedia ==
    /\ ie = "bbc" /\ pc = "medias" /\ nmedia < MaxMedia
    /\ \E m \in Medias : media' = m
    /\ pc' = "conns"
    /\ nmedia' = nmedia + 1
    /\ UNCHANGED <<ie, data, video_url, src_idx, formats, subtitles, last_exception, fmts, sttls, urls,
                   conn, requests, warning, error, nconn>>
    /\ UNCHANGED sitevars

\* for media in ...: a captions media
NextCaptions ==
    /\ ie = "bbc" /\ pc = "medias" /\ nmedia < MaxMedia
    /\ \E subs \in SubtitleSets :
        /\ sttls' = Some(subs)
        /\ requests' = Append(requests, [op |-> "captions", subs |-> subs])
    /\ nmedia' = nmedia + 1
    /\ UNCHANGED <<ie, data, video_url, pc, src_idx, formats, subtitles, last_exception, fmts, urls,
                   media, conn, warning, error, nconn>>
    /\ UNCHANGED sitevars

\* for media in ...: a media of any other kind
NextOtherMedia ==
    /\ ie = "bbc" /\ pc = "medias" /\ nmedia < MaxMedia
    /\ nmedia' = nmedia + 1
    /\ UNCHANGED <<ie, data, video_url, pc, src_idx, formats, subtitles, last_exception, fmts, sttls, urls,
                   media, conn, requests, warning, error, nconn>>
    /\ UNCHANGED sitevars

\* a faulty variant: the loop over the media sets ends at the first set with formats
ReturnOnFirstSuccess ==
    /\ ie = "bbc" /\ pc = "medias"
    /\ formats' = formats \o fmts
    /\ subtitles' = IF sttls # NoDict /\ DOMAIN sttls[1] # {}
                    THEN MergeSubtitles(subtitles, sttls[1])
                    ELSE subtitles
    /\ src_idx' = IF fmts # << >> THEN Len(MEDIA_SETS) + 1 ELSE src_idx + 1
    /\ pc' = "select"
    /\ fmts' = << >> /\ sttls' = NoDict /\ urls' = {}
    /\ UNCHANGED <<ie, data, video_url, last_exception, media, conn, requests, warning, error, nmedia, nconn>>
    /\ UNCHANGED sitevars

\* return formats, subtitles; then formats.extend(fmts) and the subtitle merge
ReturnMediaSelection ==
    /\ ie = "bbc" /\ pc = "medias"
    /\ formats' = formats \o fmts
    /\ subtitles' = IF sttls # NoDict /\ DOMAIN sttls[1] # {}
                    THEN MergeSubtitles(subtitles, sttls[1])
                    ELSE subtitles
    /\ src_idx' = src_idx + 1
    /\ pc' = "select"
    /\ fmts' = << >> /\ sttls' = NoDict /\ urls' = {}
    /\ UNCHANGED <<ie, data, video_url, last_exception, media, conn, requests, warning, error, nmedia, nconn>>
    /\ UNCHANGED sitevars

\* for connection in ...
NextConnection ==
    /\ ie = "bbc" /\ pc = "conns" /\ nconn < MaxConn
    /\ \E c \in Connections : conn' = c
    /\ pc' = "expand"
    /\ nconn' = nconn + 1
    /\ UNCHANGED <<ie, data, video_url, src_idx, formats, subtitles, last_exception, fmts, sttls, urls,
                   media, requests, warning, error, nmedia>>
    /\ UNCHANGED sitevars

\* the connections of the media are exhausted
EndConnections ==
    /\ ie = "bbc" /\ pc = "conns"
    /\ pc' = "medias"
    /\ media' = NoMedia
    /\ UNCHANGED <<ie, data, video_url, src_idx, formats, subtitles, last_exception, fmts, sttls, urls,
                   conn, requests, warning, error, nmedia, nconn>>
    /\ UNCHANGED sitevars

\* if href in urls: continue
SkipSeenHref ==
    /\ ie = "bbc" /\ pc = "expand"
    /\ conn.href \in urls
    /\ pc' = "conns"
    /\ conn' = NoConn
    /\ UNCHANGED <<ie, data, video_url, src_idx, formats, subtitles, last_exception, fmts, sttls, urls,
                   media, requests, warning, error, nmedia, nconn>>
    /\ UNCHANGED sitevars

\* if href: urls.add(href)
AddHref == urls' = IF Truthy(conn.href) THEN urls \cup {conn.href} ELSE urls

format_id == BaseFormatId(conn.supplier, conn.kind, conn.protocol)

\* if supplier == 'asx': the ASX playlist is downloaded and its refs appended
ExpandAsx ==
    /\ ie = "bbc" /\ pc = "expand"
    /\ conn.href \notin urls /\ AddHref
    /\ conn.supplier = "asx"
    /\ \E refs \in AsxDocuments :
        /\ requests' = Append(requests, [op |-> "asx", href |-> conn.href, refs |-> refs])
        /\ fmts' = fmts \o AsxFormats(refs, format_id)
    /\ pc' = "conns"
    /\ conn' = NoConn
    /\ UNCHANGED <<ie, data, video_url, src_idx, formats, subtitles, last_exception, sttls, media,
                   warning, error, nmedia, nconn>>
    /\ UNCHANGED sitevars

\* _download_xml of the ASX playlist fails
FailAsx ==
    /\ ie = "bbc" /\ pc = "expand"
    /\ conn.href \notin urls /\ AddHref
    /\ conn.supplier = "asx"
    /\ requests' = Append(requests, [op |-> "asx", href |-> conn.href, failed |-> TRUE])
    /\ Raise("ExtractorError:download")
    /\ UNCHANGED <<ie, data, video_url, src_idx, formats, subtitles, last_exception, fmts, sttls, media,
                   conn, warning, nmedia, nconn>>
    /\ UNCHANGED sitevars

\* elif transfer_format in dash, hls, hds: the manifest is expanded
ExpandManifest ==
    /\ ie = "bbc" /\ pc = "expand"
    /\ conn.href \notin urls /\ AddHref
    /\ conn.supplier # "asx"
    /\ conn.transferFormat \in {"dash", "hls", "hds"}
    /\ \E out \in AdapterOutcomes :
        /\ requests' = Append(requests, [op |-> conn.transferFormat, href |-> conn.href,
                                         id |-> format_id, out |-> out])
        /\ IF out.st = "ok"
           THEN /\ fmts' = fmts \o Variants(conn.href, format_id, out.n)
                /\ pc' = "conns" /\ conn' = NoConn
                /\ UNCHANGED error
           ELSE IF Swallows(conn.transferFormat, out)
           THEN /\ fmts' = fmts \o << >>
                /\ pc' = "conns" /\ conn' = NoConn
                /\ UNCHANGED error
           ELSE /\ Raise("ExtractorError:" \o ToString(out.n))
                /\ UNCHANGED <<fmts, conn>>
    /\ UNCHANGED <<ie, data, video_url, src_idx, formats, subtitles, last_exception, sttls, media,
                   warning, nmedia, nconn>>
    /\ UNCHANGED sitevars

\* else: a direct link, an rtmp stream, or a protocol that is skipped
AppendDirect ==
    /\ ie = "bbc" /\ pc = "expand"
    /\ conn.href \notin urls /\ AddHref
    /\ conn.supplier # "asx"
    /\ conn.transferFormat \notin {"dash", "hls", "hds"}
    /\ IF DirectFormatId(format_id, conn.supplier, int_or_none(media.bitrate)) = "TypeError"
       THEN /\ Raise("TypeError")
            /\ UNCHANGED <<fmts, conn>>
       ELSE /\ fmts' = fmts \o DirectFormats(media, conn)
            /\ pc' = "conns" /\ conn' = NoConn
            /\ UNCHANGED error
    /\ UNCHANGED <<ie, data, video_url, src_idx, formats, subtitles, last_exception, sttls, media,
                   requests, warning, nmedia, nconn>>
    /\ UNCHANGED sitevars

\* a faulty variant: selectionunavailable is reported as well
WarningAlways(e) == "returned error: " \o e

\* if last_exception.id != 'selectionunavailable': self.report_warning(...)
WarningFor(e) == IF e # "selectionunavailable" THEN "returned error: " \o e ELSE None

\* after the loop: if last_exception ...; return formats, subtitles
FinishMediaSelector ==
    /\ ie = "bbc" /\ pc = "select" /\ src_idx > Len(MEDIA_SETS)
    /\ IF last_exception # None
       THEN IF formats # << >> \/ DOMAIN subtitles # {}
            THEN /\ warning' = WarningFor(last_exception)
                 /\ pc' = "done"
                 /\ UNCHANGED error
            ELSE /\ Raise("ExtractorError:" \o last_exception)
                 /\ UNCHANGED warning
       ELSE /\ pc' = "done"
            /\ UNCHANGED <<warning, error>>
    /\ UNCHANGED <<ie, data, video_url, src_idx, formats, subtitles, last_exception, fmts, sttls, urls,
                   media, conn, requests, nmedia, nconn>>
    /\ UNCHANGED sitevars

NextBBC ==
    \/ DownloadMediaSelection
    \/ FailMediaSelection
    \/ NextMedia
    \/ NextCaptions
    \/ NextOtherMedia
    \/ ReturnMediaSelection
    \/ NextConnection
    \/ EndConnections
    \/ SkipSeenHref
    \/ ExpandAsx
    \/ FailAsx
    \/ ExpandManifest
    \/ AppendDirect
    \/ FinishMediaSelector

----------------------------------------------------------------------------
(* TV2IE._real_extract: the protocol loop *)

\* TV2IE._PROTOCOLS
PROTOCOLS == << "HLS", "DASH" >>

\* str.lower() of a protocol name
Lower == [z \in {"HLS"} |-> "hls"] @@ [z \in {"DASH"} |-> "dash"]

Unbound == "<unbound>"
NoData == [drmProtected |-> FALSE, bound |-> FALSE]

\* the urls of stream items, and the extension determine_ext finds in each
ExtOf == [z \in {"a.mp4"} |-> "mp4"] @@ [z \in {"b.mp4"} |-> "mp4"]
         @@ [z \in {"a.m3u8"} |-> "m3u8"] @@ [z \in {"a.mpd"} |-> "mpd"]
         @@ [z \in {"a.f4m"} |-> "f4m"] @@ [z \in {"a.ism"} |-> "ism"]

determine_ext(u) == ExtOf[u]

Items ==
    [url : DOMAIN ExtOf \cup {None}, type : {None, "vod"}, mediaFormat : {"mf"},
     bitrate : {"320"}, fileSize : {"1000"}]

\* the error codes of a 401 answer of the playback API; "none" is any other failure
PlaybackErrors == {"ASSET_PLAYBACK_INVALID_GEO_LOCATION", "SESSION_NOT_AUTHENTICATED",
                   "OTHER_CODE", "none"}

\* '%s-%s' % (protocol.lower(), dict_get(item, ('type', 'mediaFormat')))
ItemFormatId(protocol, item) ==
    Lower[protocol] \o "-" \o (IF item.type # None THEN item.type ELSE item.mediaFormat)

\* the record of a direct item
ItemFormat(protocol, item) ==
    [url |-> item.url, format_id |-> ItemFormatId(protocol, item),
     tbr |-> int_or_none(item.bitrate), filesize |-> int_or_none(item.fileSize)]

\* a faulty variant: an unknown value is the highest one
RankUnknownBest(f, k) == IF k \in DOMAIN f /\ f[k] # NoInt THEN f[k] ELSE 1000000

\* the integer a format has under key k, the lowest value when it has none
Rank(f, k) == IF k \in DOMAIN f /\ f[k] # NoInt THEN f[k] ELSE NoInt

\* the ranking key, most significant first
FormatKey(f) ==
    << IF "quality" \in DOMAIN f THEN f.quality ELSE 0,
       IF "language_preference" \in DOMAIN f THEN f.language_preference ELSE 0,
       IF "ext" \in DOMAIN f /\ f.ext = "flv" THEN 0 ELSE 1,
       Rank(f, "height"), Rank(f, "width"),
       IF "tbr" \in DOMAIN f THEN Rank(f, "tbr") ELSE Rank(f, "abr"),
       Rank(f, "filesize") >>

RECURSIVE KeyLess(_, _, _)
KeyLess(a, b, i) ==
    IF i > Len(a) THEN FALSE
    ELSE IF a[i] # b[i] THEN a[i] < b[i]
    ELSE KeyLess(a, b, i + 1)

\* a faulty variant: records of equal key rank below each other
FormatLessOrEqual(a, b) == ~KeyLess(FormatKey(b), FormatKey(a), 1)

\* a ranks below b
FormatLess(a, b) == KeyLess(FormatKey(a), FormatKey(b), 1)

RECURSIVE InsertSorted(_, _)
InsertSorted(sorted, f) ==
    IF sorted = << >> \/ ~FormatLess(f, sorted[Len(sorted)])
    THEN Append(sorted, f)
    ELSE Append(InsertSorted(SubSeq(sorted, 1, Len(sorted) - 1), f), sorted[Len(sorted)])

RECURSIVE SortFormats(_)
\* _sort_formats: worst first, best last, earlier first among equals
SortFormats(fs) ==
    IF fs = << >> THEN << >>
    ELSE InsertSorted(SortFormats(SubSeq(fs, 1, Len(fs) - 1)), fs[Len(fs)])

\* for protocol in self._PROTOCOLS: the playback JSON is downloaded
DownloadPlayback ==
    /\ ie = "tv2" /\ pc = "tv2_play" /\ src_idx <= Len(PROTOCOLS)
    /\ \E drm \in BOOLEAN : data' = [drmProtected |-> drm, bound |-> TRUE]
    /\ requests' = Append(requests, [op |-> "playback", name |-> PROTOCOLS[src_idx],
                                     result |-> "ok"])
    /\ pc' = "tv2_items"
    /\ UNCHANGED <<ie, src_idx, formats, subtitles, last_exception, fmts, sttls, urls,
                   media, conn, video_url, warning, error, nmedia, nconn>>
    /\ UNCHANGED sitevars

\* the playback download raises: a 401 with an error code, or anything else
FailPlayback ==
    /\ ie = "tv2" /\ pc = "tv2_play" /\ src_idx <= Len(PROTOCOLS)
    /\ \E code \in PlaybackErrors :
        /\ requests' = Append(requests, [op |-> "playback", name |-> PROTOCOLS[src_idx],
                                         result |-> code])
        /\ Raise(IF code = "ASSET_PLAYBACK_INVALID_GEO_LOCATION" THEN "GeoRestrictedError"
                 ELSE IF code = "SESSION_NOT_AUTHENTICATED" THEN "LoginRequired"
                 ELSE IF code = "none" THEN "ExtractorError:download"
                 ELSE "ExtractorError:description")
    /\ UNCHANGED <<ie, src_idx, formats, subtitles, last_exception, fmts, sttls, urls,
                   media, conn, data, video_url, warning, nmedia, nconn>>
    /\ UNCHANGED sitevars

\* for item in items: video_url = try_get(item, lambda x: x['url'])
NextItem ==
    /\ ie = "tv2" /\ pc = "tv2_items" /\ nconn < MaxConn
    /\ \E item \in Items :
        /\ conn' = item
        /\ video_url' = item.url
    /\ pc' = "tv2_item"
    /\ nconn' = nconn + 1
    /\ UNCHANGED <<ie, src_idx, formats, subtitles, last_exception, fmts, sttls, urls,
                   media, data, requests, warning, error, nmedia>>
    /\ UNCHANGED sitevars

\* the items of the protocol are exhausted
EndItems ==
    /\ ie = "tv2" /\ pc = "tv2_items"
    /\ pc' = "tv2_play"
    /\ src_idx' = src_idx + 1
    /\ UNCHANGED <<ie, formats, subtitles, last_exception, fmts, sttls, urls,
                   media, conn, data, video_url, requests, warning, error, nmedia, nconn>>
    /\ UNCHANGED sitevars

\* if not video_url or video_url in format_urls: continue
SkipItem ==
    /\ ie = "tv2" /\ pc = "tv2_item"
    /\ ~Truthy(video_url) \/ video_url \in urls
    /\ pc' = "tv2_items"
    /\ conn' = NoConn
    /\ UNCHANGED <<ie, src_idx, formats, subtitles, last_exception, fmts, sttls, urls,
                   media, data, video_url, requests, warning, error, nmedia, nconn>>
    /\ UNCHANGED sitevars

\* if not self._is_valid_url(...): continue
InvalidItem ==
    /\ ie = "tv2" /\ pc = "tv2_item"
    /\ Truthy(video_url) /\ video_url \notin urls
    /\ requests' = Append(requests, [op |-> "check", href |-> video_url, valid |-> FALSE])
    /\ pc' = "tv2_items"
    /\ conn' = NoConn
    /\ UNCHANGED <<ie, src_idx, formats, subtitles, last_exception, fmts, sttls, urls,
                   media, data, video_url, warning, error, nmedia, nconn>>
    /\ UNCHANGED sitevars

\* the url is valid: format_urls.add(video_url), then the branch of its extension
ExpandItem ==
    /\ ie = "tv2" /\ pc = "tv2_item"
    /\ Truthy(video_url) /\ video_url \notin urls
    /\ urls' = urls \cup {video_url}
    /\ LET ext == determine_ext(video_url)
           id == ItemFormatId(PROTOCOLS[src_idx], conn)
           checked == Append(requests, [op |-> "check", href |-> video_url, valid |-> TRUE])
       IN  IF ext \in {"f4m", "mpd"} \/ (ext = "m3u8" /\ ~data.drmProtected)
           THEN \E out \in AdapterOutcomes :
                /\ requests' = Append(checked, [op |-> ext, href |-> video_url,
                                                id |-> id, out |-> out])
                /\ IF out.st = "ok"
                   THEN /\ formats' = formats \o Variants(video_url, id, out.n)
                        /\ pc' = "tv2_items" /\ conn' = NoConn
                        /\ UNCHANGED error
                   ELSE /\ Raise("ExtractorError:" \o ToString(out.n))
                        /\ UNCHANGED <<formats, conn>>
           ELSE /\ requests' = checked
                /\ formats' = IF ext \in {"m3u8", "ism"} THEN formats
                              ELSE Append(formats, ItemFormat(PROTOCOLS[src_idx], conn))
                /\ pc' = "tv2_items" /\ conn' = NoConn
                /\ UNCHANGED error
    /\ UNCHANGED <<ie, src_idx, subtitles, last_exception, fmts, sttls,
                   media, data, video_url, warning, nmedia, nconn>>
    /\ UNCHANGED sitevars

\* after the loop: the DRM error, _sort_formats, and the result with 'url': video_url
FinishTV2 ==
    /\ ie = "tv2" /\ pc = "tv2_play" /\ src_idx > Len(PROTOCOLS)
    /\ IF formats = << >> /\ data.drmProtected
       THEN /\ Raise("ExtractorError:DRM")
            /\ UNCHANGED formats
       ELSE IF video_url = Unbound
       THEN /\ Raise("UnboundLocalError")
            /\ formats' = SortFormats(formats)
       ELSE /\ formats' = SortFormats(formats)
            /\ pc' = "done"
            /\ UNCHANGED error
    /\ UNCHANGED <<ie, src_idx, subtitles, last_exception, fmts, sttls, urls,
                   media, conn, data, video_url, requests, warning, nmedia, nconn>>
    /\ UNCHANGED sitevars

NextTV2 ==
    \/ DownloadPlayback
    \/ FailPlayback
    \/ NextItem
    \/ EndItems
    \/ SkipItem
    \/ InvalidItem
    \/ ExpandItem
    \/ FinishTV2

----------------------------------------------------------------------------
(* TV5MondePlusIE._real_extract *)

\* the variables only the media selector and the TV2 loop use
selvars == <<src_idx, last_exception, fmts, sttls, urls, media, data, video_url, warning, nmedia>>

\* video files read in one extraction, and the nesting of deferred files
MaxEntries == 3
MaxDepth == 2

\* mimetype2ext() of the types the sites give
ExtOfMimetype == [z \in {"video/mp4"} |-> "mp4"] @@ [z \in {"application/x-mpegURL"} |-> "m3u8"]
                 @@ [z \in {"application/dash+xml"} |-> "mpd"]

mimetype2ext(t) == IF t \in DOMAIN ExtOfMimetype THEN ExtOfMimetype[t] ELSE None

VideoFile(u, t, f) == [url |-> u, type |-> t, format |-> f]

\* the entries of data-broadcast and of a resolved asset
VideoFiles ==
    {VideoFile(None, "video/mp4", None),
     VideoFile("a.mp4", "video/mp4", None),
     VideoFile("b.mp4", None, None),
     VideoFile("a.m3u8", "application/x-mpegURL", None),
     VideoFile("b.mp4", None, "m3u8"),
     VideoFile("a.mpd", None, None),
     VideoFile("a.f4m", None, None),
     VideoFile("a.ism", None, None),
     VideoFile("d1", "application/deferred", None)}

\* what the resolve API answers: a list of video files, any other JSON value, or a failure
ResolveAnswers == {"list", "dict", "failed"}

\* video_file.get('format') or mimetype2ext(video_file.get('type')) or determine_ext(v_url)
video_format(video_file) ==
    IF Truthy(video_file.format) THEN video_file.format
    ELSE IF Truthy(mimetype2ext(video_file.type)) THEN mimetype2ext(video_file.type)
    ELSE determine_ext(video_file.url)

\* a faulty variant: only m3u8 is expanded
ExpandsHlsOnly(format) == format \in {"m3u8"}

\* if video_format == 'm3u8': ... elif video_format == 'mpd': ...
Expands(format) == format \in {"m3u8", "mpd"}

\* the webpage is downloaded; a redirect to the home page and the geo notice end the extraction
DownloadTV5Page ==
    /\ ie = "tv5" /\ pc = "tv5_page"
    /\ \E answer \in {"ok", "home", "geo", "failed"} :
        /\ requests' = Append(requests, [op |-> "webpage", result |-> answer])
        /\ IF answer = "ok"
           THEN /\ pc' = "tv5_files" /\ depth' = 1
                /\ UNCHANGED error
           ELSE /\ Raise(IF answer = "home" THEN "ExtractorError:redirect"
                         ELSE IF answer = "geo" THEN "GeoRestrictedError"
                         ELSE "ExtractorError:download")
                /\ UNCHANGED depth
    /\ UNCHANGED <<ie, formats, subtitles, conn, nconn, entries, page, params, returned>>
    /\ UNCHANGED selvars

\* for video_file in v
NextVideoFile ==
    /\ ie = "tv5" /\ pc = "tv5_files" /\ nconn < MaxEntries
    /\ \E video_file \in VideoFiles :
        /\ video_file.type = "application/deferred" => depth < MaxDepth
        /\ conn' = video_file
    /\ pc' = "tv5_file"
    /\ nconn' = nconn + 1
    /\ UNCHANGED <<ie, formats, subtitles, requests, error, depth, entries, page, params, returned>>
    /\ UNCHANGED selvars

\* the list v is exhausted: process_video_files returns to the list that deferred to it
EndVideoFiles ==
    /\ ie = "tv5" /\ pc = "tv5_files"
    /\ depth' = depth - 1
    /\ pc' = IF depth = 1 THEN "tv5_sort" ELSE "tv5_files"
    /\ UNCHANGED <<ie, formats, subtitles, conn, nconn, requests, error, entries, page, params, returned>>
    /\ UNCHANGED selvars

\* if not v_url: continue
SkipVideoFile ==
    /\ ie = "tv5" /\ pc = "tv5_file"
    /\ ~Truthy(conn.url)
    /\ pc' = "tv5_files"
    /\ conn' = NoConn
    /\ UNCHANGED <<ie, formats, subtitles, nconn, requests, error, depth, entries, page, params, returned>>
    /\ UNCHANGED selvars

\* a faulty variant: the resolve request is fatal
ResolveFatalAlways == TRUE

\* self._download_json(..., note='Downloading asset metadata', fatal=False)
ResolveFatal == FALSE

\* type application/deferred: the asset is resolved with fatal=False and
\* process_video_files runs on the answer; a dict answer is iterated by its keys,
\* none of which has a url
ResolveDeferred ==
    /\ ie = "tv5" /\ pc = "tv5_file"
    /\ Truthy(conn.url)
    /\ conn.type = "application/deferred"
    /\ \E answer \in ResolveAnswers :
        /\ requests' = Append(requests, [op |-> "resolve", href |-> conn.url, result |-> answer])
        /\ IF answer = "failed" /\ ResolveFatal
           THEN /\ Raise("ExtractorError:download")
                /\ UNCHANGED <<depth, conn>>
           ELSE /\ depth' = IF answer = "list" THEN depth + 1 ELSE depth
                /\ pc' = "tv5_files"
                /\ conn' = NoConn
                /\ UNCHANGED error
    /\ UNCHANGED <<ie, formats, subtitles, nconn, entries, page, params, returned>>
    /\ UNCHANGED selvars

\* m3u8 and mpd are expanded with fatal=False; any other format is appended as it is
ExpandVideoFile ==
    /\ ie = "tv5" /\ pc = "tv5_file"
    /\ Truthy(conn.url)
    /\ conn.type # "application/deferred"
    /\ IF Expands(video_format(conn))
       THEN \E out \in AdapterOutcomes :
            /\ requests' = Append(requests, [op |-> video_format(conn), href |-> conn.url,
                                             out |-> out])
            /\ IF out.st = "ok"
               THEN /\ formats' = formats \o Variants(conn.url,
                                      IF video_format(conn) = "m3u8" THEN "hls" ELSE None, out.n)
                    /\ pc' = "tv5_files" /\ conn' = NoConn
                    /\ UNCHANGED error
               ELSE /\ Raise("ExtractorError:" \o ToString(out.n))
                    /\ UNCHANGED <<formats, conn>>
       ELSE /\ formats' = Append(formats, [url |-> conn.url, format_id |-> video_format(conn)])
            /\ pc' = "tv5_files" /\ conn' = NoConn
            /\ UNCHANGED <<requests, error>>
    /\ UNCHANGED <<ie, subtitles, nconn, depth, entries, page, params, returned>>
    /\ UNCHANGED selvars

\* self._sort_formats(formats), the metadata, and the result with 'formats': formats
FinishTV5 ==
    /\ ie = "tv5" /\ pc = "tv5_sort"
    /\ formats' = SortFormats(formats)
    /\ requests' = Append(requests, [op |-> "sort", sorted |-> SortFormats(formats)])
    /\ pc' = "done"
    /\ UNCHANGED <<ie, subtitles, conn, nconn, error, depth, entries, page, params, returned>>
    /\ UNCHANGED selvars

NextTV5 ==
    \/ DownloadTV5Page
    \/ NextVideoFile
    \/ EndVideoFiles
    \/ SkipVideoFile
    \/ ResolveDeferred
    \/ ExpandVideoFile
    \/ FinishTV5

----------------------------------------------------------------------------
(* YappyIE._real_extract *)

\* the link of the video and the link of its audio; Absent: the data has no audio
YappyData ==
    [link : {None, "a.mp4", "a.m3u8", "a.mpd", "a.f4m", "a.ism"},
     audio : {Absent, None, "a.mp3"}]

\* the webpage is downloaded and the link is looked up in its data
DownloadYappyPage ==
    /\ ie = "yappy" /\ pc = "yappy_page"
    /\ \E video_data \in YappyData :
        /\ requests' = Append(requests, [op |-> "webpage", result |-> "ok"])
        /\ conn' = video_data
        /\ IF video_data.link = None
           THEN Raise("ExtractorError:Unable to extract link")
           ELSE pc' = "yappy_expand" /\ UNCHANGED error
    /\ UNCHANGED <<ie, formats, subtitles, nconn, depth, entries, page, params, returned>>
    /\ UNCHANGED selvars

\* the download of the webpage fails
FailYappyPage ==
    /\ ie = "yappy" /\ pc = "yappy_page"
    /\ requests' = Append(requests, [op |-> "webpage", result |-> "failed"])
    /\ Raise("ExtractorError:download")
    /\ UNCHANGED <<ie, formats, subtitles, conn, nconn, depth, entries, page, params, returned>>
    /\ UNCHANGED selvars

\* ext = determine_ext(fmt_url): m3u8 and mpd are expanded with fatal=False, any
\* other link is appended with its url only; then self._sort_formats(formats)
ExpandYappy ==
    /\ ie = "yappy" /\ pc = "yappy_expand"
    /\ LET ext == determine_ext(conn.link) IN
       IF ext \in {"m3u8", "mpd"}
       THEN \E out \in AdapterOutcomes :
            LET call == [op |-> ext, href |-> conn.link, out |-> out]
                got == Variants(conn.link, IF ext = "m3u8" THEN "hls" ELSE "dash", out.n)
            IN  IF out.st = "ok"
                THEN /\ formats' = SortFormats(got)
                     /\ requests' = requests \o << call, [op |-> "sort", sorted |-> SortFormats(got)] >>
                     /\ pc' = "yappy_finish"
                     /\ UNCHANGED error
                ELSE /\ requests' = Append(requests, call)
                     /\ Raise("ExtractorError:" \o ToString(out.n))
                     /\ UNCHANGED formats
       ELSE /\ formats' = SortFormats(<< [url |-> conn.link] >>)
            /\ requests' = Append(requests, [op |-> "sort", sorted |-> << [url |-> conn.link] >>])
            /\ pc' = "yappy_finish"
            /\ UNCHANGED error
    /\ UNCHANGED <<ie, subtitles, conn, nconn, depth, entries, page, params, returned>>
    /\ UNCHANGED selvars

\* info.update({'formats': formats, ...}); the audio link, when there is one, is
\* appended to info['formats']; return info
FinishYappy ==
    /\ ie = "yappy" /\ pc = "yappy_finish"
    /\ formats' = IF conn.audio \notin {Absent, None}
                  THEN Append(formats, [url |-> conn.audio, vcodec |-> "none"])
                  ELSE formats
    /\ pc' = "done"
    /\ UNCHANGED <<ie, subtitles, conn, nconn, requests, error, depth, entries, page, params, returned>>
    /\ UNCHANGED selvars

NextYappy ==
    \/ DownloadYappyPage
    \/ FailYappyPage
    \/ ExpandYappy
    \/ FinishYappy

----------------------------------------------------------------------------
(* BBCCoUkIE._download_playlist, and the sort of _real_extract *)

\* the types of a version; the key is absent, or it holds a list
VersionTypes ==
    {NoDict, Some(<< "Original" >>), Some(<< "AudioDescribed" >>),
     Some(<< "Signed", "DubbedAudioDescribed" >>)}

\* the entries of allAvailableVersions
Versions == [smpConfig : BOOLEAN, title : {None, "t"}, item : BOOLEAN, types : VersionTypes]

\* the media a version is made of
VersionMedia ==
    [kind |-> "video", bitrate |-> "320", encoding |-> "h264", width |-> "640",
     height |-> "360", media_file_size |-> "1000"]

\* what _download_media_selector returns for a version
SelectorFormats ==
    {<< >>,
     DirectFormats(VersionMedia, Conn("h1", None, "http", None, None, Absent)),
     DirectFormats(VersionMedia, Conn("h2", None, "http", None, None, Absent)),
     DirectFormats(VersionMedia, Conn("h1", None, "http", None, None, Absent))
        \o AsxFormats(<< "r1" >>, "asx")}

\* ... or the ExtractorError it raises, with the HTTP status that caused it (0: none)
SelectorOutcomes ==
    {[st |-> "ok", formats |-> f, subtitles |-> t] :
        f \in SelectorFormats, t \in {<< >>, [en |-> << "A" >>]}}
    \cup {[st |-> "raise", n |-> 404], [st |-> "raise", n |-> 0]}

\* version.get('types', ['unknown'])
TypesOf(version) == IF version.types = NoDict THEN << "unknown" >> ELSE version.types[1]

\* 'AudioDescribed' in x, for the type names of the BBC
ContainsAudioDescribed(x) == x \in {"AudioDescribed", "DubbedAudioDescribed"}

RECURSIVE Join(_)
\* ', '.join(types)
Join(types) ==
    IF types = << >> THEN ""
    ELSE IF Len(types) = 1 THEN types[1]
    ELSE types[1] \o ", " \o Join(Tail(types))

\* a faulty variant: every version is penalised
PenalisedAlways(types) == TRUE

\* any('AudioDescribed' in x for x in types)
Penalised(types) == \E i \in DOMAIN types : ContainsAudioDescribed(types[i])

\* for f in version_formats: the format_note, and the language_preference
MarkVersion(version_formats, types) ==
    [i \in DOMAIN version_formats |->
        IF Penalised(types)
        THEN Update(version_formats[i],
                    [format_note |-> Join(types), language_preference |-> 0 - 10])
        ELSE Update(version_formats[i], [format_note |-> Join(types)])]

\* a faulty variant: every ExtractorError leads to the legacy playlist
CausedByAny(status) == TRUE

\* isinstance(ee.cause, compat_HTTPError) and ee.cause.code == 404
CausedBy404(status) == status = 404

\* the playlist JSON is downloaded; HTTP 404 leads to the legacy playlist
DownloadPlaylistJson ==
    /\ ie = "bbc_playlist" /\ pc = "pl_json"
    /\ \E status \in {200, 404, 500} :
        /\ requests' = Append(requests, [op |-> "playlist.json", status |-> status])
        /\ IF status = 200 THEN pc' = "pl_versions" /\ UNCHANGED error
           ELSE IF CausedBy404(status) THEN pc' = "pl_legacy" /\ UNCHANGED error
           ELSE Raise("ExtractorError:" \o ToString(status))
    /\ UNCHANGED <<ie, formats, subtitles, conn, nconn, depth, entries, page, params, returned>>
    /\ UNCHANGED selvars

\* for version in playlist.get('allAvailableVersions', [])
NextVersion ==
    /\ ie = "bbc_playlist" /\ pc = "pl_versions" /\ nconn < MaxEntries
    /\ \E version \in Versions : conn' = version
    /\ pc' = "pl_version"
    /\ nconn' = nconn + 1
    /\ UNCHANGED <<ie, formats, subtitles, requests, error, depth, entries, page, params, returned>>
    /\ UNCHANGED selvars

\* no smpConfig, no title or no programme item: nothing is collected for the version
SkipVersion ==
    /\ ie = "bbc_playlist" /\ pc = "pl_version"
    /\ ~conn.smpConfig \/ ~Truthy(conn.title) \/ ~conn.item
    /\ pc' = "pl_versions"
    /\ conn' = NoConn
    /\ UNCHANGED <<ie, formats, subtitles, nconn, requests, error, depth, entries, page, params, returned>>
    /\ UNCHANGED selvars

\* the media selector of the version's programme; its formats are marked and
\* added, its subtitles merged; an ExtractorError caused by HTTP 404 leads to the
\* legacy playlist, any other one is raised again
SelectVersion ==
    /\ ie = "bbc_playlist" /\ pc = "pl_version"
    /\ conn.smpConfig /\ Truthy(conn.title) /\ conn.item
    /\ \E out \in SelectorOutcomes :
        /\ requests' = Append(requests, [op |-> "selector", types |-> TypesOf(conn),
                                         result |-> out])
        /\ IF out.st = "ok"
           THEN /\ formats' = formats \o MarkVersion(out.formats, TypesOf(conn))
                /\ subtitles' = IF DOMAIN out.subtitles # {}
                                THEN MergeSubtitles(subtitles, out.subtitles)
                                ELSE subtitles
                /\ pc' = "pl_versions" /\ conn' = NoConn
                /\ UNCHANGED error
           ELSE IF CausedBy404(out.n)
           THEN /\ pc' = "pl_legacy"
                /\ UNCHANGED <<formats, subtitles, conn, error>>
           ELSE /\ Raise("ExtractorError:" \o ToString(out.n))
                /\ UNCHANGED <<formats, subtitles, conn>>
    /\ UNCHANGED <<ie, nconn, depth, entries, page, params, returned>>
    /\ UNCHANGED selvars

\* after the loop: if formats: return ...; else the legacy playlist
EndVersions ==
    /\ ie = "bbc_playlist" /\ pc = "pl_versions"
    /\ pc' = IF formats # << >> THEN "pl_sort" ELSE "pl_legacy"
    /\ UNCHANGED <<ie, formats, subtitles, conn, nconn, requests, error, depth, entries,
                   page, params, returned>>
    /\ UNCHANGED selvars

\* what the legacy playlist holds
LegacyPlaylists == {"download failed", "noItems", "no programme", "no title", "programme"}

\* return self._process_legacy_playlist(playlist_id): the XML is downloaded;
\* noItems is an ExtractorError; without programme item or title the result is
\* None, which _real_extract cannot unpack; else the formats and subtitles are
\* those of the media selector of the item
ProcessLegacyPlaylist ==
    /\ ie = "bbc_playlist" /\ pc = "pl_legacy"
    /\ \E playlist \in LegacyPlaylists, out \in SelectorOutcomes :
        /\ playlist # "programme" => out = [st |-> "raise", n |-> 0]
        /\ requests' = Append(requests, [op |-> "legacy", playlist |-> playlist,
                                         result |-> out])
        /\ IF playlist \in {"download failed", "noItems"}
           THEN /\ Raise("ExtractorError:" \o playlist)
                /\ UNCHANGED <<formats, subtitles>>
           ELSE IF playlist \in {"no programme", "no title"}
           THEN /\ Raise("TypeError")
                /\ UNCHANGED <<formats, subtitles>>
           ELSE IF out.st = "raise"
           THEN /\ Raise("ExtractorError:" \o ToString(out.n))
                /\ UNCHANGED <<formats, subtitles>>
           ELSE /\ formats' = out.formats
                /\ subtitles' = out.subtitles
                /\ pc' = "pl_sort"
                /\ UNCHANGED error
    /\ UNCHANGED <<ie, conn, nconn, depth, entries, page, params, returned>>
    /\ UNCHANGED selvars

\* self._sort_formats(formats), and the result of _real_extract
FinishPlaylist ==
    /\ ie = "bbc_playlist" /\ pc = "pl_sort"
    /\ formats' = SortFormats(formats)
    /\ requests' = Append(requests, [op |-> "sort", sorted |-> SortFormats(formats)])
    /\ pc' = "done"
    /\ UNCHANGED <<ie, subtitles, conn, nconn, error, depth, entries, page, params, returned>>
    /\ UNCHANGED selvars

NextPlaylist ==
    \/ DownloadPlaylistJson
    \/ NextVersion
    \/ SkipVersion
    \/ SelectVersion
    \/ EndVersions
    \/ ProcessLegacyPlaylist
    \/ FinishPlaylist

----------------------------------------------------------------------------
(* TenPlayIE._real_extract and _get_bearer_token *)

\* --username and --password, and --video-password
Params ==
    [username : {None, "u"}, password : {None, "p"}, videopassword : {None, "pw"}]

\* what a download of 10play answers: the body, a failure, or a page whose
\* 'iserror' element says the video is not available in the region
TenPlayAnswers == {"ok", "failed", "not available in your region"}

\* the 'memberGated' of the video data: absent, or a JSON value
TenPlayData == [memberGated : {Absent, "true", "false"}]

\* where the HEAD request on the source ends
TenPlaySources == {"a.m3u8", "10play-not-in-oz.m3u8"}

\* a download that did not answer the body raises
TenPlayFailure(answer) ==
    Raise(IF answer = "failed" THEN "ExtractorError:download" ELSE "GeoRestrictedError")

\* data = self._download_json('https://10play.com.au/api/v1/videos/' + content_id)
DownloadTenPlayData ==
    /\ ie = "tenplay" /\ pc = "ten_data"
    /\ \E answer \in TenPlayAnswers, video_data \in TenPlayData :
        /\ requests' = Append(requests, [op |-> "videos", result |-> answer])
        /\ IF answer = "ok"
           THEN /\ conn' = video_data
                /\ pc' = IF video_data.memberGated = "true" THEN "ten_token" ELSE "ten_source"
                /\ UNCHANGED error
           ELSE /\ TenPlayFailure(answer)
                /\ UNCHANGED conn
    /\ UNCHANGED <<ie, formats, subtitles, nconn, depth, entries, page, params, returned>>
    /\ UNCHANGED selvars

\* _get_bearer_token: without a username or a password raise_login_required;
\* with both, the token is asked of /api/user/auth
LoginDespiteMissing(p) == FALSE

LoginMissing(p) == p.username = None \/ p.password = None

GetBearerToken ==
    /\ ie = "tenplay" /\ pc = "ten_token"
    /\ IF LoginMissing(params)
       THEN /\ Raise("LoginRequired")
            /\ UNCHANGED requests
       ELSE \E answer \in TenPlayAnswers :
            /\ requests' = Append(requests, [op |-> "auth", result |-> answer])
            /\ IF answer = "ok"
               THEN pc' = "ten_source" /\ UNCHANGED error
               ELSE TenPlayFailure(answer)
    /\ UNCHANGED <<ie, formats, subtitles, conn, nconn, depth, entries, page, params, returned>>
    /\ UNCHANGED selvars

\* the video JSON is downloaded and a HEAD request follows its 'source'; a
\* final address with '10play-not-in-oz' raises the geo restriction
DownloadTenPlaySource ==
    /\ ie = "tenplay" /\ pc = "ten_source"
    /\ \E answer \in TenPlayAnswers, m3u8_url \in TenPlaySources :
        /\ requests' = Append(requests, [op |-> "playback api", result |-> answer])
        /\ IF answer # "ok"
           THEN TenPlayFailure(answer) /\ UNCHANGED video_url
           ELSE IF m3u8_url = "10play-not-in-oz.m3u8"
           THEN Raise("GeoRestrictedError") /\ UNCHANGED video_url
           ELSE /\ video_url' = m3u8_url
                /\ pc' = "ten_formats"
                /\ UNCHANGED error
    /\ UNCHANGED <<ie, formats, subtitles, conn, nconn, depth, entries, page, params, returned>>
    /\ UNCHANGED <<src_idx, last_exception, fmts, sttls, urls, media, data, warning, nmedia>>

\* formats = self._extract_m3u8_formats(m3u8_url, content_id, 'mp4'), fatal;
\* self._sort_formats(formats); return
ExpandTenPlay ==
    /\ ie = "tenplay" /\ pc = "ten_formats"
    /\ \E out \in AdapterOutcomes :
        LET call == [op |-> "m3u8", href |-> video_url, out |-> out]
            got == SortFormats(Variants(video_url, "hls", out.n))
        IN  IF out.st = "ok"
            THEN /\ formats' = got
                 /\ requests' = requests \o << call, [op |-> "sort", sorted |-> got] >>
                 /\ pc' = "done"
                 /\ UNCHANGED error
            ELSE /\ requests' = Append(requests, call)
                 /\ Raise("ExtractorError:" \o ToString(out.n))
                 /\ UNCHANGED formats
    /\ UNCHANGED <<ie, subtitles, conn, nconn, depth, entries, page, params, returned>>
    /\ UNCHANGED selvars

NextTenPlay ==
    \/ DownloadTenPlayData
    \/ GetBearerToken
    \/ DownloadTenPlaySource
    \/ ExpandTenPlay

----------------------------------------------------------------------------
(* DropboxIE._real_extract *)

\* a webpage of the link: whether it asks for the password, the transcode_url
\* of its file viewer, and sharePermission.canDownloadRoles (optional list)
DropboxPages ==
    [asks : BOOLEAN, transcode_url : {None, "a.m3u8"},
     roles : {NoDict, Some(<< >>), Some(<< "anonymous" >>)}]

\* what the POST of the password answers: its 'status', or a failed request
AuthAnswers == {"authed", "error", "failed"}

\* webpage = self._download_webpage(url, video_id)
DownloadDropboxPage ==
    /\ ie = "dropbox" /\ pc = "dbx_page"
    /\ \/ \E webpage \in DropboxPages :
            /\ requests' = Append(requests, [op |-> "webpage", result |-> "ok"])
            /\ conn' = webpage
            /\ pc' = IF webpage.asks THEN "dbx_password" ELSE "dbx_formats"
            /\ UNCHANGED error
       \/ /\ requests' = Append(requests, [op |-> "webpage", result |-> "failed"])
          /\ Raise("ExtractorError:download")
          /\ UNCHANGED conn
    /\ UNCHANGED <<ie, formats, subtitles, nconn, depth, entries, page, params, returned>>
    /\ UNCHANGED selvars

\* the page asks for the password: with --video-password it is POSTed and an
\* answer other than 'authed' raises; without it an sm_auth cookie lets the
\* page be downloaded again; without either the extractor raises
PasswordRequired == "ExtractorError:Password protected video"

UnlockDropbox ==
    /\ ie = "dropbox" /\ pc = "dbx_password"
    /\ IF Truthy(params.videopassword)
       THEN \E answer \in AuthAnswers :
            /\ requests' = Append(requests, [op |-> "sm/auth", result |-> answer])
            /\ IF answer = "authed"
               THEN pc' = "dbx_reload" /\ UNCHANGED error
               ELSE Raise(IF answer = "failed" THEN "ExtractorError:download"
                          ELSE "ExtractorError:Authentication failed!")
       ELSE \E sm_auth \in BOOLEAN :
            /\ requests' = Append(requests, [op |-> "cookie", result |-> ToString(sm_auth)])
            /\ IF sm_auth
               THEN pc' = "dbx_reload" /\ UNCHANGED error
               ELSE Raise(PasswordRequired)
    /\ UNCHANGED <<ie, formats, subtitles, conn, nconn, depth, entries, page, params, returned>>
    /\ UNCHANGED selvars

\* webpage = self._download_webpage(url, video_id), again
ReloadDropboxPage ==
    /\ ie = "dropbox" /\ pc = "dbx_reload"
    /\ \/ \E webpage \in DropboxPages :
            /\ requests' = Append(requests, [op |-> "webpage", result |-> "ok"])
            /\ conn' = webpage
            /\ pc' = "dbx_formats"
            /\ UNCHANGED error
       \/ /\ requests' = Append(requests, [op |-> "webpage", result |-> "failed"])
          /\ Raise("ExtractorError:download")
          /\ UNCHANGED conn
    /\ UNCHANGED <<ie, formats, subtitles, nconn, depth, entries, page, params, returned>>
    /\ UNCHANGED selvars

\* the record of the original file: update_url_query(url, {'dl': '1'})
OriginalFormat ==
    [url |-> "link?dl=1", format_id |-> "original", format_note |-> "Original", quality |-> 1]

\* the transcode_url is expanded with fatal=False; 'anonymous' in roles raises
\* TypeError when the roles are not a list; self._sort_formats(formats); return
CollectDropbox ==
    /\ ie = "dropbox" /\ pc = "dbx_formats"
    /\ \E out \in AdapterOutcomes :
        LET expand == Truthy(conn.transcode_url)
            call == [op |-> "m3u8", href |-> conn.transcode_url, out |-> out]
            got == IF expand /\ out.st = "ok"
                   THEN Variants(conn.transcode_url, "hls", out.n) ELSE << >>
            all == IF "anonymous" \in {conn.roles[1][i] : i \in DOMAIN conn.roles[1]}
                   THEN Append(got, OriginalFormat) ELSE got
        IN  /\ expand \/ out = CHOOSE o \in AdapterOutcomes : o.st = "ok"
            /\ IF expand /\ out.st = "raise"
               THEN /\ requests' = Append(requests, call)
                    /\ Raise("ExtractorError:" \o ToString(out.n))
                    /\ UNCHANGED formats
               ELSE IF conn.roles = NoDict
               THEN /\ requests' = IF expand THEN Append(requests, call) ELSE requests
                    /\ Raise("TypeError")
                    /\ UNCHANGED formats
               ELSE /\ formats' = SortFormats(all)
                    /\ requests' = (IF expand THEN Append(requests, call) ELSE requests)
                                   \o << [op |-> "sort", sorted |-> SortFormats(all)] >>
                    /\ pc' = "done"
                    /\ UNCHANGED error
    /\ UNCHANGED <<ie, subtitles, conn, nconn, depth, entries, page, params, returned>>
    /\ UNCHANGED selvars

NextDropbox ==
    \/ DownloadDropboxPage
    \/ UnlockDropbox
    \/ ReloadDropboxPage
    \/ CollectDropbox

----------------------------------------------------------------------------
(* ImdbIE._extract_formats and _real_extract *)

\* an encoding of a fmt_list: its url, its mimeType and its definition
Encoding(u, t, d) == [url |-> u, mimeType |-> t, definition |-> d]

Encodings ==
    {Encoding(None, None, "SD"),
     Encoding("a.mp4", "video/mp4", "SD"),
     Encoding("b.mp4", None, "720p"),
     Encoding("a.m3u8", "application/x-mpegURL", "auto")}

\* the lists of up to n encodings
EncodingLists(n) == UNION {[1..k -> Encodings] : k \in 0..n}

\* data['videoLegacyEncodings'] when it is a list
LegacyEncodings == {NoDict} \cup {Some(l) : l \in EncodingLists(MaxEntries)}

\* video_metadata of the webpage when it is a dict, with its 'playbackURLs'
VideoMetadata ==
    {NoDict}
    \cup {Some([playbackURLs |-> NoDict])}
    \cup {Some([playbackURLs |-> Some(l)]) :
            l \in {<< >>, << Encoding("b.mp4", None, "720p") >>,
                   << Encoding("a.m3u8", "application/x-mpegURL", "auto"),
                      Encoding("a.mp4", "video/mp4", "SD") >>}}

\* quality = qualities(('SD', '480p', '720p', '1080p'))
quality(id) ==
    IF id = "SD" THEN 0
    ELSE IF id = "480p" THEN 1
    ELSE IF id = "720p" THEN 2
    ELSE IF id = "1080p" THEN 3
    ELSE 0 - 1

\* ext = mimetype2ext(encoding.get('mimeType')) or determine_ext(video_url)
EncodingExt(encoding) ==
    Or(mimetype2ext(encoding.mimeType), determine_ext(encoding.url))

\* the record of an encoding that is not a manifest
EncodingFormat(encoding) ==
    [format_id |-> encoding.definition,
     url |-> encoding.url,
     ext |-> EncodingExt(encoding),
     quality |-> quality(encoding.definition),
     language |-> None]

\* _remove_duplicate_formats: of the records with one url the first is kept
RECURSIVE remove_duplicate_formats(_)
remove_duplicate_formats(fs) ==
    IF fs = << >> THEN << >>
    ELSE LET head == remove_duplicate_formats(SubSeq(fs, 1, Len(fs) - 1))
             f == fs[Len(fs)]
         IN  IF \E i \in DOMAIN head : head[i].url = f.url THEN head ELSE Append(head, f)

\* the fmt_list of the running call of _extract_formats
fmt_list ==
    IF src_idx = 1 THEN data.videoLegacyEncodings[1] ELSE conn.video_metadata[1].playbackURLs[1]

\* _extract_formats returns value (None: NoDict) to the call of _real_extract
\* that made it: formats = ... of the first call; formats.extend(...),
\* self._remove_duplicate_formats(formats) and self._sort_formats(formats) of
\* the second
ReturnFormats(call, value, log) ==
    /\ returned' = value
    /\ IF call = 1
       THEN /\ formats' = IF value = NoDict THEN << >> ELSE value[1]
            /\ requests' = log
            /\ pc' = "imdb_page"
            /\ UNCHANGED error
       ELSE IF value = NoDict
       THEN /\ requests' = log
            /\ Raise("TypeError")
            /\ UNCHANGED formats
       ELSE LET sorted == SortFormats(remove_duplicate_formats(formats \o value[1]))
            IN  /\ formats' = sorted
                /\ requests' = Append(log, [op |-> "sort", sorted |-> sorted])
                /\ pc' = "done"
                /\ UNCHANGED error

\* the playback data is downloaded and _extract_formats is called on its
\* 'videoLegacyEncodings': anything but a list returns []
DownloadImdbData ==
    /\ ie = "imdb" /\ pc = "imdb_data"
    /\ \/ \E encodings \in LegacyEncodings :
            /\ data' = [videoLegacyEncodings |-> encodings]
            /\ src_idx' = 1 /\ nconn' = 0 /\ fmts' = << >>
            /\ IF encodings = NoDict
               THEN ReturnFormats(1, Some(<< >>), Append(requests, [op |-> "data", result |-> "ok"]))
               ELSE /\ requests' = Append(requests, [op |-> "data", result |-> "ok"])
                    /\ pc' = "imdb_enc"
                    /\ UNCHANGED <<formats, error, returned>>
       \/ /\ requests' = Append(requests, [op |-> "data", result |-> "failed"])
          /\ Raise("ExtractorError:download")
          /\ UNCHANGED <<data, src_idx, nconn, fmts, formats, returned>>
    /\ UNCHANGED <<ie, subtitles, conn, depth, entries, page, params>>
    /\ UNCHANGED <<last_exception, sttls, urls, media, video_url, warning, nmedia>>

\* for encoding in fmt_list: if not video_url: continue
SkipEncoding ==
    /\ ie = "imdb" /\ pc = "imdb_enc"
    /\ nconn < Len(fmt_list)
    /\ ~Truthy(fmt_list[nconn + 1].url)
    /\ nconn' = nconn + 1
    /\ UNCHANGED <<ie, pc, formats, subtitles, conn, requests, error, depth, entries, page, params, returned>>
    /\ UNCHANGED selvars

\* if ext == 'm3u8': the manifest is expanded with fatal=False; continue
ExpandEncoding ==
    /\ ie = "imdb" /\ pc = "imdb_enc"
    /\ nconn < Len(fmt_list)
    /\ LET encoding == fmt_list[nconn + 1] IN
        /\ Truthy(encoding.url)
        /\ EncodingExt(encoding) = "m3u8"
        /\ \E out \in AdapterOutcomes :
            /\ requests' = Append(requests, [op |-> "m3u8", href |-> encoding.url, out |-> out])
            /\ IF out.st = "ok"
               THEN /\ fmts' = fmts \o Variants(encoding.url, "hls", out.n)
                    /\ UNCHANGED <<pc, error>>
               ELSE /\ Raise("ExtractorError:" \o ToString(out.n))
                    /\ UNCHANGED fmts
    /\ nconn' = nconn + 1
    /\ UNCHANGED <<ie, formats, subtitles, conn, depth, entries, page, params, returned>>
    /\ UNCHANGED <<src_idx, last_exception, sttls, urls, media, data, video_url, warning, nmedia>>

\* any other encoding: its record is appended, and 'return formats' follows
\* in the body of the loop
AppendEncoding ==
    /\ ie = "imdb" /\ pc = "imdb_enc"
    /\ nconn < Len(fmt_list)
    /\ LET encoding == fmt_list[nconn + 1] IN
        /\ Truthy(encoding.url)
        /\ EncodingExt(encoding) # "m3u8"
        /\ fmts' = Append(fmts, EncodingFormat(encoding))
        /\ ReturnFormats(src_idx, Some(Append(fmts, EncodingFormat(encoding))), requests)
    /\ nconn' = nconn + 1
    /\ UNCHANGED <<ie, subtitles, conn, depth, entries, page, params>>
    /\ UNCHANGED <<src_idx, last_exception, sttls, urls, media, data, video_url, warning, nmedia>>

\* the list is exhausted: the function ends without a return statement
EndEncodings ==
    /\ ie = "imdb" /\ pc = "imdb_enc"
    /\ nconn = Len(fmt_list)
    /\ ReturnFormats(src_idx, NoDict, requests)
    /\ UNCHANGED <<ie, subtitles, conn, nconn, depth, entries, page, params>>
    /\ UNCHANGED selvars

\* the webpage is downloaded: with a video_metadata formats.extend(...) is
\* evaluated, which raises AttributeError when formats is None, and
\* _extract_formats is called on 'playbackURLs'; without one the formats are sorted
DownloadImdbPage ==
    /\ ie = "imdb" /\ pc = "imdb_page"
    /\ \/ \E video_metadata \in VideoMetadata :
            LET log == Append(requests, [op |-> "webpage", result |-> "ok"]) IN
            /\ conn' = [video_metadata |-> video_metadata]
            /\ IF video_metadata = NoDict
               THEN /\ UNCHANGED <<src_idx, nconn, fmts, returned>>
                    /\ IF returned = NoDict
                       THEN /\ requests' = log
                            /\ Raise("ExtractorError:No video formats found")
                            /\ UNCHANGED formats
                       ELSE LET sorted == SortFormats(formats)
                            IN  /\ formats' = sorted
                                /\ requests' = Append(log, [op |-> "sort", sorted |-> sorted])
                                /\ pc' = "done"
                                /\ UNCHANGED error
               ELSE IF returned = NoDict
               THEN /\ requests' = log
                    /\ Raise("AttributeError")
                    /\ UNCHANGED <<src_idx, nconn, fmts, formats, returned>>
               ELSE /\ src_idx' = 2 /\ nconn' = 0 /\ fmts' = << >>
                    /\ IF video_metadata[1].playbackURLs = NoDict
                       THEN ReturnFormats(2, Some(<< >>), log)
                       ELSE /\ requests' = log
                            /\ pc' = "imdb_enc"
                            /\ UNCHANGED <<formats, error, returned>>
       \/ /\ requests' = Append(requests, [op |-> "webpage", result |-> "failed"])
          /\ Raise("ExtractorError:download")
          /\ UNCHANGED <<conn, src_idx, nconn, fmts, formats, returned>>
    /\ UNCHANGED <<ie, subtitles, depth, entries, page, params>>
    /\ UNCHANGED <<last_exception, sttls, urls, media, data, video_url, warning, nmedia>>

NextImdb ==
    \/ DownloadImdbData
    \/ SkipEncoding
    \/ ExpandEncoding
    \/ AppendEncoding
    \/ EndEncodings
    \/ DownloadImdbPage

----------------------------------------------------------------------------
(* BBCCoUkPlaylistIE._entries *)

\* pages a playlist is followed through
MaxPages == 3

\* a webpage of the playlist: the ids _VIDEO_ID_TEMPLATE finds in it, in the
\* order of the page, and the href of its pagination next link (None: no link)
PlaylistPages ==
    [ids : {<< >>, << "p1" >>, << "p2", "p1" >>}, next : {None, "?page=2", "?page=3"}]

\* if single_page: return
ReturnsNever(single_page) == FALSE

ReturnsAfterPage(single_page) == single_page

\* _entries(url, playlist_id, webpage): single_page is whether the query of
\* the url has 'page'; the webpage is handed over by the caller, or None
StartEntries ==
    /\ ie = "bbc_entries" /\ pc = "ent_start"
    /\ \E single_page \in BOOLEAN, webpage \in {NoDict} \cup {Some(p) : p \in PlaylistPages} :
        /\ data' = [single_page |-> single_page, webpage |-> webpage, next_page |-> None]
        /\ requests' = IF webpage = NoDict THEN requests
                       ELSE Append(requests, [op |-> "given", page_num |-> 1, href |-> "url",
                                              webpage |-> webpage[1]])
    /\ page' = 1
    /\ pc' = "ent_page"
    /\ UNCHANGED <<ie, formats, subtitles, conn, nconn, error, depth, entries, params, returned>>
    /\ UNCHANGED <<src_idx, last_exception, fmts, sttls, urls, media, video_url, warning, nmedia>>

\* if not webpage: page 1 is downloaded from the url, a later page from the
\* next link of the page before
DownloadPage ==
    /\ ie = "bbc_entries" /\ pc = "ent_page"
    /\ data.webpage = NoDict
    /\ LET href == IF page = 1 THEN "url" ELSE data.next_page IN
       \/ \E p \in PlaylistPages :
            /\ requests' = Append(requests, [op |-> "webpage", page_num |-> page, href |-> href,
                                             webpage |-> p])
            /\ data' = [data EXCEPT !.webpage = Some(p)]
            /\ UNCHANGED <<pc, error>>
       \/ /\ requests' = Append(requests, [op |-> "failed", page_num |-> page, href |-> href])
          /\ Raise("ExtractorError:download")
          /\ UNCHANGED data
    /\ UNCHANGED <<ie, formats, subtitles, conn, nconn, depth, entries, page, params, returned>>
    /\ UNCHANGED <<src_idx, last_exception, fmts, sttls, urls, media, video_url, warning, nmedia>>

\* the ids of the webpage are yielded; a single page returns; without a next
\* link the loop breaks; else the next page is due
YieldPage ==
    /\ ie = "bbc_entries" /\ pc = "ent_page"
    /\ data.webpage # NoDict
    /\ LET webpage == data.webpage[1] IN
        /\ entries' = entries \o webpage.ids
        /\ IF ReturnsAfterPage(data.single_page)
           THEN pc' = "done" /\ UNCHANGED <<data, page>>
           ELSE /\ data' = [data EXCEPT !.next_page = webpage.next,
                                        !.webpage = IF Truthy(webpage.next) THEN NoDict ELSE @]
                /\ IF Truthy(webpage.next)
                   THEN page < MaxPages /\ page' = page + 1 /\ UNCHANGED pc
                   ELSE pc' = "done" /\ UNCHANGED page
    /\ UNCHANGED <<ie, formats, subtitles, conn, nconn, requests, error, depth, params, returned>>
    /\ UNCHANGED <<src_idx, last_exception, fmts, sttls, urls, media, video_url, warning, nmedia>>

NextEntries ==
    \/ StartEntries
    \/ DownloadPage
    \/ YieldPage

----------------------------------------------------------------------------
(* BBCCoUkIE._extract_from_legacy_playlist and its callers in BBCIE *)

\* what _extract_from_legacy_playlist returns for a playlist with a programme
\* item and a title: programme_id, title, description, duration, formats,
\* subtitles, None
LegacyResult(out) ==
    << "programme_id", "title", "description", "duration", out.formats, out.subtitles, None >>

\* the names on the left of the assignment at bbc.py:1170 and at bbc.py:1176
SxmlNames == 6

\* the callers in BBCIE: _extract_from_playlist_sxml, and the playlist.sxml
\* branch of _extract_from_media_meta
SxmlCallers == {"_extract_from_playlist_sxml", "_extract_from_media_meta"}

\* the legacy playlist XML is downloaded and _extract_from_legacy_playlist runs
\* on it: noItems raises, without programme item or title the result is None,
\* else it is LegacyResult; the caller unpacks it into SxmlNames names, and
\* _extract_from_playlist_sxml sorts the formats
ExtractFromPlaylistSxml ==
    /\ ie = "bbc_sxml" /\ pc = "sxml_legacy"
    /\ \E caller \in SxmlCallers, playlist \in LegacyPlaylists, out \in SelectorOutcomes :
        /\ playlist # "programme" => out = [st |-> "raise", n |-> 0]
        /\ requests' = Append(requests, [op |-> "legacy", caller |-> caller,
                                         playlist |-> playlist, result |-> out])
        /\ IF playlist \in {"download failed", "noItems"}
           THEN /\ Raise("ExtractorError:" \o playlist)
                /\ UNCHANGED <<formats, subtitles>>
           ELSE IF playlist \in {"no programme", "no title"}
           THEN /\ Raise("TypeError")
                /\ UNCHANGED <<formats, subtitles>>
           ELSE IF out.st = "raise"
           THEN /\ Raise("ExtractorError:" \o ToString(out.n))
                /\ UNCHANGED <<formats, subtitles>>
           ELSE IF Len(LegacyResult(out)) # SxmlNames
           THEN /\ Raise("ValueError")
                /\ UNCHANGED <<formats, subtitles>>
           ELSE /\ formats' = IF caller = "_extract_from_playlist_sxml"
                              THEN SortFormats(LegacyResult(out)[5])
                              ELSE LegacyResult(out)[5]
                /\ subtitles' = LegacyResult(out)[6]
                /\ pc' = "done"
                /\ UNCHANGED error
    /\ UNCHANGED <<ie, conn, nconn, depth, entries, page, params, returned>>
    /\ UNCHANGED selvars

NextSxml == ExtractFromPlaylistSxml

----------------------------------------------------------------------------
(* YappyProfileIE._real_extract.get_entries *)

\* requests of the video list a profile is followed through
MaxRequests == 4

\* the 'page' of a url that has none
NoPage == 0

\* the 'results' of an answer: a uuid, a dict without uuid, or no dict at all
ProfileResults ==
    {<< >>, << "u1" >>, << "u2", None, "u1" >>, << "not a dict", "u3" >>}

\* the 'next' of an answer: None (NoInt), or a url by the 'page' of its query
ProfileLinks == {NoInt, NoPage} \cup 1..3

\* what the API answers: a JSON object, or a failed download
ProfileAnswers ==
    [st : {"ok"}, results : ProfileResults, next : ProfileLinks]
    \cup {[st |-> "failed", results |-> << >>, next |-> NoInt]}

\* get_page(url, default): the last 'page' of the query, or the default
get_page(url_page, default) == IF url_page = NoPage THEN default ELSE url_page

\* the uuids of the results that are dicts and have one
RECURSIVE Uuids(_)
Uuids(results) ==
    IF results = << >> THEN << >>
    ELSE LET vid == Head(results) IN
         (IF vid \in {None, "not a dict"} THEN << >> ELSE << vid >>) \o Uuids(Tail(results))

\* a faulty variant: the page of the next link is never compared
SamePageNever(current, next_page) == FALSE

\* page == next_page
SamePage(current, next_page) == current = next_page

\* while next: the list at next is downloaded with fatal=False, the uuids of
\* its results are yielded, and the pager returns without a next link, without
\* a page in it, or with the page it is at; else next becomes that page
DownloadProfilePage ==
    /\ ie = "yappy_profile" /\ pc = "yp_page" /\ nconn < MaxRequests
    /\ \E playlist_json \in ProfileAnswers :
        LET current == get_page(page, 1)
            api_next == playlist_json.next
            next_page == IF api_next = NoInt THEN NoPage ELSE get_page(api_next, NoPage)
        IN  /\ requests' = Append(requests, [op |-> "video-list", page |-> current,
                                             answer |-> playlist_json])
            /\ entries' = entries \o Uuids(playlist_json.results)
            /\ IF api_next = NoInt \/ next_page = NoPage \/ SamePage(current, next_page)
               THEN pc' = "done" /\ UNCHANGED page
               ELSE page' = next_page /\ UNCHANGED pc
    /\ nconn' = nconn + 1
    /\ UNCHANGED <<ie, formats, subtitles, conn, error, depth, params, returned>>
    /\ UNCHANGED selvars

NextProfile == DownloadProfilePage

(* XVideosPlaylistBaseIE._real_extract.entries and the _get_next_page of its subclasses *)

\* pages read in one playlist
MaxCount == 3

\* the playlist extractors: XVideosPlaylistIE, XVideosChannelIE, XVideosSearchIE
XVideosClasses == {"xv_playlist", "xv_channel", "xv_search"}

\* Python values a next_page can be: a url (by the number it ends with), the
\* tuple (url, False), or False
Str(num) == [type |-> "str", num |-> num]
Tuple(num) == [type |-> "tuple", num |-> num]
False == [type |-> "bool", num |-> 0]

\* not next_page: False is falsy, a url and a non-empty tuple are truthy
Not(value) == value.type = "bool"

\* the urls of the entries of a page; hash() is not injective, two urls may
\* share a hash
hash(from_url) ==
    CASE from_url = "v1" -> 11 [] from_url = "v2" -> 12 [] from_url = "v3" -> 13
      [] from_url = "v4" -> 11
VideoLists == {<< >>, << "v1", "v2" >>, << "v3", "v1", "v3" >>, << "v2", "v4" >>}

\* what the url matches: the pnum of a playlist (NoInt = None), the tab of a
\* channel (None = the activity feed)
XVideosUrls ==
    [class : {"xv_playlist"}, pnum : {NoInt, 4}, tab : {None}]
    \cup [class : {"xv_channel"}, pnum : {NoInt}, tab : {None, "videos", "favorites"}]
    \cup [class : {"xv_search"}, pnum : {NoInt}, tab : {None}]

\* a page: JSON or HTML, its video ids, the href of its next-page link
\* (NoInt = none), the last activity event in it (NoInt = none), and whether a
\* videos tab says that its videos are all listed
XVideosPages(url) ==
    IF url.class = "xv_channel" /\ url.tab = None
    THEN [json : {FALSE}, vids : VideoLists, next : {NoInt}, last_act : {NoInt, 5, 7},
          listed : {FALSE}]
    ELSE IF url.class = "xv_channel" /\ url.tab = "videos"
    THEN [json : {TRUE}, vids : VideoLists, next : {NoInt}, last_act : {NoInt},
          listed : BOOLEAN]
         \cup {[json |-> FALSE, vids |-> << >>, next |-> NoInt, last_act |-> NoInt,
                listed |-> FALSE]}
    ELSE IF url.class = "xv_channel"
    THEN [json : {FALSE}, vids : {<< >>, << "/favorite/1/a" >>}, next : {NoInt},
          last_act : {NoInt}, listed : {FALSE}]
    ELSE [json : {FALSE}, vids : VideoLists, next : {NoInt, 1}, last_act : {NoInt},
          listed : {FALSE}]
         \cup {[json |-> TRUE, vids |-> << >>, next |-> NoInt, last_act |-> NoInt,
                listed |-> FALSE]}

\* XVideosPlaylistBaseIE._get_next_page: the url with num for a JSON page, else
\* the href of the next-page link, or False
_get_next_page(url, num, webpage) ==
    IF webpage.json THEN Str(num)
    ELSE IF webpage.next = NoInt THEN False ELSE Str(webpage.next)

\* XVideosChannelIE._get_next_page: the url of the last activity of the page,
\* False when that is the activity the url is at
XVideosChannelIE_get_next_page(url, num, webpage) ==
    IF webpage.json THEN _get_next_page(url, num, webpage)
    ELSE LET act_time == url.num
             last_act == IF webpage.last_act = NoInt THEN act_time ELSE webpage.last_act
         IN  IF last_act = act_time THEN False ELSE Str(last_act)

\* XVideosSearchIE._get_next_page: a tuple of the url with p=num and False
XVideosSearchIE_get_next_page(url, num, webpage) == Tuple(num)

get_next_page(class, url, num, webpage) ==
    CASE class = "xv_channel" -> XVideosChannelIE_get_next_page(url, num, webpage)
      [] class = "xv_search" -> XVideosSearchIE_get_next_page(url, num, webpage)
      [] OTHER -> _get_next_page(url, num, webpage)

\* _extract_videos: the entries of the page and the stop flag; the videos tab
\* of a channel stops when its videos are all listed, the favorites tab yields
\* strings, not dicts
_extract_videos(url, webpage) ==
    [vids |-> webpage.vids,
     dicts |-> ~(url.class = "xv_channel" /\ url.tab = "favorites"),
     stop |-> url.class = "xv_channel" /\ url.tab = "videos" /\ webpage.listed]

\* a faulty variant: no hash is found in ids
InIdsNever(h_id, ids) == FALSE

\* h_id in ids
InIds(h_id, ids) == h_id \in ids

\* for from_ in vids: an entry whose hash is not in ids is yielded and its
\* hash added
RECURSIVE YieldVids(_, _)
YieldVids(yielded, vids) ==
    IF vids = << >> THEN yielded
    ELSE LET ids == {hash(yielded[i]) : i \in DOMAIN yielded}
             from_ == Head(vids)
         IN  YieldVids(IF InIds(hash(from_), ids) THEN yielded ELSE Append(yielded, from_),
                       Tail(vids))

\* _real_extract up to the call of entries: the url is matched, the first page
\* is downloaded with fatal=False, and next_page is the first playlist page;
\* XVideosChannelIE._get_playlist_url downloads the channel page and raises
\* without it
MatchXVideosUrl ==
    /\ ie \in XVideosClasses /\ pc = "xv_url"
    /\ \E url \in {u \in XVideosUrls : u.class = ie} :
        /\ requests' = << [op |-> "url", url |-> url] >>
        /\ \/ pc' = "xv_page" /\ page' = Str(0) /\ UNCHANGED error
           \/ ie = "xv_channel" /\ Raise("ExtractorError:download") /\ UNCHANGED page
    /\ UNCHANGED <<ie, formats, subtitles, conn, nconn, depth, entries, params, returned>>
    /\ UNCHANGED selvars

\* the download of the page at next_page: a page, or a raise; a next_page that
\* is no url cannot be requested
XVideosDownloads(url, next_page) ==
    IF next_page.type = "str"
    THEN [st : {"ok"}, webpage : XVideosPages(url)]
         \cup {[st |-> "ExtractorError:download", webpage |-> None]}
    ELSE {[st |-> "AttributeError", webpage |-> None]}

\* one round of for count in itertools.count(0): the page is downloaded (the
\* first one may be the page _real_extract has), its new entries are yielded,
\* and the loop ends on stop, on a pnum, or without a next page
XVideosEntries ==
    /\ ie \in XVideosClasses /\ pc = "xv_page" /\ nconn < MaxCount
    /\ \E answer \in XVideosDownloads(requests[1].url, page) :
        LET url == requests[1].url
            count == nconn
            webpage == answer.webpage
            found == _extract_videos(url, webpage)
            next_page == get_next_page(url.class, page, count + 1, webpage)
        IN  /\ requests' = Append(requests, [op |-> "page", url |-> page, answer |-> answer])
            /\ IF answer.st # "ok"
               THEN Raise(answer.st) /\ UNCHANGED <<entries, page>>
               ELSE IF ~found.dicts /\ found.vids # << >>
               THEN Raise("TypeError") /\ UNCHANGED <<entries, page>>
               ELSE /\ entries' = YieldVids(entries, found.vids)
                    /\ IF found.stop \/ url.pnum # NoInt \/ Not(next_page)
                       THEN pc' = "done" /\ UNCHANGED page
                       ELSE page' = next_page /\ UNCHANGED pc
                    /\ UNCHANGED error
    /\ nconn' = nconn + 1
    /\ UNCHANGED <<ie, formats, subtitles, conn, depth, params, returned>>
    /\ UNCHANGED selvars

NextXVideos == MatchXVideosUrl \/ XVideosEntries

----------------------------------------------------------------------------

(* BBCCoUkIPlayerPlaylistBaseIE._entries *)

\* the query of the url: whether it has a seriesId, and a page
EpisodesUrls == [seriesId : BOOLEAN, page : BOOLEAN]

\* header.availableSlices of the first page: the seasons
AvailableSlices ==
    {<< >>,
     << [id |-> "p1", title |-> "Series 1"] >>,
     << [id |-> "p1", title |-> "Series 1"], [id |-> "p2", title |-> "Series 2"] >>}

\* the redux state of a page: the slices of its header, its pagination, and
\* the ids of its entities (None: an entity without id)
ReduxStates(slices) ==
    [slices : slices, currentPage : 1..2, totalPages : 1..2,
     entities : {<< >>, << "e1" >>, << "e2", None >>}]

\* single_season, single_page: 'seriesId' in query, 'page' in query; a page
\* without slices is walked as a single season
single_season(query, slices) == query.seriesId \/ slices = << >>
single_page(query) == query.page

\* a url_result for every entity with an id, with the season when there is one
RECURSIVE UrlResults(_, _)
UrlResults(entities, season) ==
    IF entities = << >> THEN << >>
    ELSE (IF Head(entities) = None THEN << >>
          ELSE << [id |-> Head(entities), season |-> season] >>)
         \o UrlResults(Tail(entities), season)

\* the slices the walk goes by: those of the first page, or the one slice
\* without id and title that stands for a page without slices
SlicesOf(log) ==
    IF log[2].answer.slices = << >> THEN << [id |-> None, title |-> None] >>
    ELSE log[2].answer.slices

\* the query is parsed
ParseEpisodesUrl ==
    /\ ie = "bbc_iplayer" /\ pc = "ip_url"
    /\ \E query \in EpisodesUrls : requests' = << [op |-> "url", query |-> query] >>
    /\ pc' = "ip_page"
    /\ page' = 1
    /\ UNCHANGED <<ie, formats, subtitles, conn, nconn, error, depth, entries, params, returned>>
    /\ UNCHANGED selvars

\* one round of while page_num <= total_pages: the page is downloaded (the
\* first one may be given), its entities are yielded, and the loop is left
\* for a single page or after the last page
DownloadEpisodesPage ==
    /\ ie = "bbc_iplayer" /\ pc = "ip_page" /\ nconn < MaxPages
    /\ \/ \E redux_state \in ReduxStates(IF Len(requests) = 1 THEN AvailableSlices
                                         ELSE {<< >>}) :
            LET log == Append(requests, [op |-> "page", season_n |-> src_idx,
                                         page_num |-> page, answer |-> redux_state])
                season == SlicesOf(log)[src_idx].title
                page_num == redux_state.currentPage
                total_pages == redux_state.totalPages
            IN  /\ requests' = log
                /\ entries' = entries \o UrlResults(redux_state.entities, season)
                /\ IF single_page(requests[1].query) \/ ~(page_num + 1 <= total_pages)
                   THEN pc' = "ip_season" /\ UNCHANGED page
                   ELSE page' = page_num + 1 /\ UNCHANGED pc
                /\ UNCHANGED error
       \/ /\ requests' = Append(requests, [op |-> "failed", season_n |-> src_idx,
                                           page_num |-> page])
          /\ Raise("ExtractorError:download")
          /\ UNCHANGED <<entries, page>>
    /\ nconn' = nconn + 1
    /\ UNCHANGED <<ie, src_idx, formats, subtitles, conn, depth, params, returned>>
    /\ UNCHANGED <<last_exception, fmts, sttls, urls, media, data, video_url, warning, nmedia>>

\* after the pages of a season: a single season ends the walk, else the next
\* season is read at slices[season_n], which the last season does not have
NextSeason ==
    /\ ie = "bbc_iplayer" /\ pc = "ip_season"
    /\ LET slices == SlicesOf(requests)
           season_n == src_idx
       IN  IF single_season(requests[1].query, requests[2].answer.slices)
           THEN pc' = "done" /\ UNCHANGED <<src_idx, page, error>>
           ELSE IF ~(season_n + 1 \in DOMAIN slices)
           THEN Raise("IndexError") /\ UNCHANGED <<src_idx, page>>
           ELSE src_idx' = season_n + 1 /\ page' = 1 /\ pc' = "ip_page" /\ UNCHANGED error
    /\ UNCHANGED <<ie, formats, subtitles, conn, nconn, requests, depth, entries, params, returned>>
    /\ UNCHANGED <<last_exception, fmts, sttls, urls, media, data, video_url, warning, nmedia>>

NextEpisodes == ParseEpisodesUrl \/ DownloadEpisodesPage \/ NextSeason

----------------------------------------------------------------------------

----------------------------------------------------------------------------
(* InfoExtractor._sort_formats on the records the extractors build *)

\* records added to one list, and ranking calls on it
MaxFormats == 3
MaxSorts == 2

\* a record of each shape the extractors build: the bare link of Yappy, the
\* direct file of TV5MONDE+, an ASX ref, an HLS variant, the direct and rtmp
\* records of a video and an audio media, and the record of an audio-described
\* version
RankedFormats ==
    {[url |-> "a.mp4"],
     [url |-> "b.mp4", format_id |-> "mp4"],
     [url |-> "a.mp3", vcodec |-> "none"]}
    \cup {AsxFormats(<< "r1" >>, "asx")[1], Variants("a.m3u8", "hls", 1)[1]}
    \cup {DirectFormats([VersionMedia EXCEPT !.kind = k], Conn("h1", None, p, None, None, Absent))[1] :
            k \in {"video", "audio"}, p \in {"http", "rtmp"}}
    \cup {MarkVersion(DirectFormats(VersionMedia, Conn("h2", None, "http", None, None, Absent)),
                      << "AudioDescribed" >>)[1]}

\* a record is added to the list
AddFormat ==
    /\ ie = "rank" /\ pc = "rank" /\ nconn < MaxFormats
    /\ \E f \in RankedFormats : formats' = Append(formats, f)
    /\ nconn' = nconn + 1
    /\ UNCHANGED <<ie, pc, subtitles, conn, requests, error, depth, entries, page, params, returned>>
    /\ UNCHANGED selvars

\* self._sort_formats(formats)
RankFormats ==
    /\ ie = "rank" /\ pc = "rank" /\ Len(requests) < MaxSorts
    /\ formats' = SortFormats(formats)
    /\ requests' = Append(requests, [op |-> "sort", sorted |-> SortFormats(formats)])
    /\ UNCHANGED <<ie, pc, subtitles, conn, nconn, error, depth, entries, page, params, returned>>
    /\ UNCHANGED selvars

NextRank == AddFormat \/ RankFormats

----------------------------------------------------------------------------

Init ==
    /\ ie \in {"bbc", "tv2"}
    /\ pc = IF ie = "bbc" THEN "select" ELSE "tv2_play"
    /\ src_idx = 1
    /\ formats = << >>
    /\ subtitles = << >>
    /\ last_exception = None
    /\ fmts = << >>
    /\ sttls = NoDict
    /\ urls = {}
    /\ media = NoMedia
    /\ conn = NoConn
    /\ data = NoData
    /\ video_url = Unbound
    /\ requests = << >>
    /\ warning = None
    /\ error = None
    /\ nmedia = 0
    /\ nconn = 0
    /\ entries = << >>
    /\ page = 0
    /\ depth = 0
    /\ params = NoParams
    /\ returned = NoDict

Next == NextBBC \/ NextTV2

Spec == Init /\ [][Next]_vars

\* the other extractors of the repository
Sites == {"tv5", "yappy", "bbc_playlist", "tenplay", "dropbox", "imdb", "bbc_entries",
          "bbc_sxml", "yappy_profile", "bbc_iplayer"} \cup XVideosClasses

FirstStep ==
    [z \in {"bbc"} |-> "select"] @@ [z \in {"tv2"} |-> "tv2_play"]
    @@ [z \in {"tv5"} |-> "tv5_page"] @@ [z \in {"yappy"} |-> "yappy_page"]
    @@ [z \in {"bbc_playlist"} |-> "pl_json"] @@ [z \in {"rank"} |-> "rank"]
    @@ [z \in {"tenplay"} |-> "ten_data"] @@ [z \in {"dropbox"} |-> "dbx_page"]
    @@ [z \in {"imdb"} |-> "imdb_data"] @@ [z \in {"bbc_entries"} |-> "ent_start"]
    @@ [z \in {"bbc_sxml"} |-> "sxml_legacy"] @@ [z \in {"yappy_profile"} |-> "yp_page"]
    @@ [z \in XVideosClasses |-> "xv_url"] @@ [z \in {"bbc_iplayer"} |-> "ip_url"]

InitOf(extractors) ==
    /\ ie \in extractors
    /\ pc = FirstStep[ie]
    /\ src_idx = 1
    /\ formats = << >>
    /\ subtitles = << >>
    /\ last_exception = None
    /\ fmts = << >>
    /\ sttls = NoDict
    /\ urls = {}
    /\ media = NoMedia
    /\ conn = NoConn
    /\ data = NoData
    /\ video_url = Unbound
    /\ requests = << >>
    /\ warning = None
    /\ error = None
    /\ nmedia = 0
    /\ nconn = 0
    /\ entries = << >>
    /\ page = 0
    /\ depth = 0
    /\ params \in IF ie = "tenplay" THEN {p \in Params : p.videopassword = None}
                 ELSE IF ie = "dropbox"
                 THEN {p \in Params : p.username = None /\ p.password = None}
                 ELSE {NoParams}
    /\ returned = NoDict

InitSites == InitOf(Sites)

NextSites ==
    NextTV5 \/ NextYappy \/ NextPlaylist \/ NextTenPlay \/ NextDropbox \/ NextImdb \/ NextEntries
    \/ NextSxml \/ NextProfile \/ NextXVideos \/ NextEpisodes

SpecSites == InitSites /\ [][NextSites]_vars

InitRank == InitOf({"rank"})

SpecRank == InitRank /\ [][NextRank]_vars

InitAll == InitOf({"bbc", "tv2"} \cup Sites)

NextAll == Next \/ NextSites

SpecAll == InitAll /\ [][NextAll]_vars

----------------------------------------------------------------------------
(* Properties *)

Last(q) == q[Len(q)]

Url(f) == Get(f, "url")

Finished == pc \in {"done", "raised"}

\* the requests for a redundant source, in the order they were made
SourceCalls == SelectSeq(requests, LAMBDA r : r.op \in {"mediaset", "playback"})

\* the HLS expansions of the media selector, in the order they were made
HlsCalls == SelectSeq(requests, LAMBDA r : r.op = "hls")

\* C1: the returned format list holds at most one record per url (the record of
\* the first descriptor seen with that url), whatever the media sets, medias and
\* connections or the protocols and items were.
C1_OneRecordPerUrl ==
    pc = "done" =>
        \A i, j \in DOMAIN formats :
            (Truthy(Url(formats[i])) /\ Url(formats[i]) = Url(formats[j])) => i = j

\* C2: within one media selection two rtmp connections whose records have the
\* same resolved url yield one record only, the first, whatever their format_id.
C2_DedupByResolvedUrl ==
    ie = "bbc" =>
        \A i, j \in DOMAIN fmts :
            /\ "play_path" \in DOMAIN fmts[i]
            /\ "play_path" \in DOMAIN fmts[j]
            /\ fmts[i].url = fmts[j].url
            => i = j

RECURSIVE ArrivedFor(_, _)
\* the descriptors that arrived for a language, in arrival order
ArrivedFor(lang, log) ==
    IF log = << >> THEN << >>
    ELSE (IF Head(log).op = "captions" /\ lang \in DOMAIN Head(log).subs
          THEN Head(log).subs[lang] ELSE << >>) \o ArrivedFor(lang, Tail(log))

\* no descriptor arrived twice
NoRepeat(q) == \A i, j \in DOMAIN q : q[i] = q[j] => i = j

\* C3: the collected subtitle map gives each language the concatenation, in
\* arrival order, of every descriptor sequence that arrived for it.
C3_SubtitlesConcatenated ==
    (ie = "bbc" /\ pc = "done") =>
        \A lang \in {"en", "fr"} :
            NoRepeat(ArrivedFor(lang, requests)) =>
            (IF lang \in DOMAIN subtitles THEN subtitles[lang] ELSE << >>)
                = ArrivedFor(lang, requests)

RECURSIVE VariantsOf(_)
\* the variants the successful expansions of a list of calls returned, in order
VariantsOf(calls) ==
    IF calls = << >> THEN << >>
    ELSE (IF Head(calls).out.st = "ok"
          THEN [i \in 1..Head(calls).out.n |->
                  [url |-> Head(calls).href \o "/v" \o ToString(i),
                   format_id |-> Head(calls).id \o "-" \o ToString(i)]]
          ELSE << >>) \o VariantsOf(Tail(calls))

\* every connection read so far was expanded as HLS, each expansion either
\* succeeded or failed with HTTP 403 or 404, and no media selection was refused
OnlyHlsSources ==
    /\ ie = "bbc"
    /\ Len(HlsCalls) = nconn
    /\ \A i \in DOMAIN HlsCalls :
        HlsCalls[i].out.st = "ok" \/ HlsCalls[i].out.n \in {403, 404}
    /\ \A i \in DOMAIN SourceCalls : SourceCalls[i].result = "ok"

\* C4: when HLS expansions fail with HTTP 403 or 404 and others succeed, no error
\* is raised and the result is exactly the variants of the successful ones.
C4_HlsFailureContained ==
    OnlyHlsSources =>
        /\ error = None
        /\ pc # "raised"
        /\ pc = "done" => formats = VariantsOf(HlsCalls)

\* C4 happens: the first HLS expansion failed with HTTP 404, the second gave its
\* variants, and the extraction returned them.
C4_Witness ==
    /\ OnlyHlsSources
    /\ pc = "done"
    /\ Len(HlsCalls) = 2
    /\ HlsCalls[1].out = [st |-> "raise", n |-> 404]
    /\ HlsCalls[2].out.st = "ok"
    /\ Len(formats) = HlsCalls[2].out.n
    /\ Len(formats) >= 2

\* C5: of the failures of a DASH or an HLS expansion exactly those with HTTP 403
\* or 404 are swallowed; every other one ends the extraction with that error.
C5_SameForDashAsHls ==
    ie = "bbc" =>
        \A i \in DOMAIN requests :
            (requests[i].op \in {"dash", "hls"} /\ requests[i].out.st = "raise") =>
                (requests[i].out.n \in {403, 404}
                    <=> ~(/\ i = Len(requests)
                          /\ pc = "raised"
                          /\ error = "ExtractorError:" \o ToString(requests[i].out.n)))

\* the media selections that answered with an error id
SelectionErrors ==
    SelectSeq(requests, LAMBDA r : r.op = "mediaset" /\ r.result \notin {"ok", "download failed"})

\* the media selections that answered with a tolerated error id
ToleratedCalls ==
    SelectSeq(requests, LAMBDA r : r.op = "mediaset" /\ r.result \in TOLERATED_ERRORS)

\* the errors that report the error id of a media selection
SelectionFailures == {"ExtractorError:" \o id : id \in SelectionResults \ {"ok"}}

\* C6 as claimed: once the extraction has ended, an error result of a media set
\* gives a warning and a normal result whenever formats were obtained, and a
\* failure only when the format list is empty, for every error id.
C6_ErrorBecomesWarning ==
    (/\ ie = "bbc" /\ Finished
     /\ SelectionErrors # << >>
     /\ error \in {None} \cup SelectionFailures) =>
        /\ formats # << >> => (pc = "done" /\ warning # None)
        /\ pc = "raised" => formats = << >>

\* C6 amended: an error id outside the tolerated ones ends the extraction at
\* once; a tolerated one gives a normal result when formats or subtitles were
\* obtained, with a warning unless the last one is selectionunavailable, and a
\* failure, after all media sets were tried, when both are empty.
C6_ToleratedErrorBecomesWarning ==
    ie = "bbc" =>
        /\ \A i \in DOMAIN SelectionErrors :
            SelectionErrors[i].result \notin TOLERATED_ERRORS =>
                /\ i = Len(SelectionErrors)
                /\ Last(requests) = SelectionErrors[i]
                /\ pc = "raised"
                /\ error = "ExtractorError:" \o SelectionErrors[i].result
        /\ (pc = "done" /\ ToleratedCalls # << >>) =>
                /\ formats # << >> \/ DOMAIN subtitles # {}
                /\ warning = IF Last(ToleratedCalls).result = "selectionunavailable"
                             THEN None
                             ELSE "returned error: " \o Last(ToleratedCalls).result
        /\ (pc = "done" /\ ToleratedCalls = << >>) => warning = None
        /\ (pc = "raised" /\ error \in {"ExtractorError:" \o id : id \in TOLERATED_ERRORS}) =>
                /\ formats = << >> /\ DOMAIN subtitles = {}
                /\ Len(SourceCalls) = Len(MEDIA_SETS)
                /\ error = "ExtractorError:" \o Last(ToleratedCalls).result

\* C6 happens: the first media set gave formats, the second answered geolocation,
\* and the extraction returned with a warning.
C6_Witness ==
    /\ ie = "bbc" /\ pc = "done"
    /\ Len(SourceCalls) = 2
    /\ SourceCalls[1].result = "ok"
    /\ SourceCalls[2].result = "geolocation"
    /\ formats # << >>
    /\ warning = "returned error: geolocation"

\* the sources of the running extractor, in the order of its list
Sources == IF ie = "bbc" THEN MEDIA_SETS ELSE PROTOCOLS

\* C7 as claimed: a further source is requested only while no formats were
\* obtained from the earlier ones.
C7_StopsAtFirstSuccess ==
    [][Len(SourceCalls') > Len(SourceCalls) => formats = << >>]_vars

\* C7 amended: the sources are requested in the order of their list, each once,
\* and an extraction that returns has requested every one of them.
C7_EverySourceInOrder ==
    /\ Len(SourceCalls) <= Len(Sources)
    /\ \A i \in DOMAIN SourceCalls : SourceCalls[i].name = Sources[i]
    /\ pc = "done" => Len(SourceCalls) = Len(Sources)

\* C7 happens: the second media set was requested after the first one had
\* returned the variants of an HLS expansion.
C7_Witness ==
    /\ ie = "bbc" /\ pc = "done"
    /\ Len(requests) = 3
    /\ requests[1].op = "mediaset"
    /\ requests[2].op = "hls" /\ requests[2].out.st = "ok" /\ requests[2].out.n > 0
    /\ requests[3].op = "mediaset"
    /\ formats # << >>

\* the part of format_id that names the source of a connection
ExpectedBase(c) ==
    IF Truthy(c.supplier) THEN c.supplier
    ELSE IF Truthy(c.kind) THEN c.kind
    ELSE c.protocol

\* the step appends the one record of a direct or rtmp connection
AppendsDirectRecord ==
    /\ ie = "bbc" /\ pc = "expand" /\ pc' = "conns"
    /\ conn.supplier # "asx"
    /\ conn.transferFormat \notin {"dash", "hls", "hds"}
    /\ Len(fmts') = Len(fmts) + 1

\* C8: the id given to the DASH, HLS and HDS expansions, the id the ASX records
\* end in, and the id the direct or rtmp record begins with, is the supplier,
\* else the connection kind, else the protocol.
C8_BaseFormatId ==
    [][(ie = "bbc" /\ pc = "expand") =>
        /\ (Len(requests') > Len(requests) /\ Last(requests').op \in {"dash", "hls", "hds"})
            => Last(requests').id = ExpectedBase(conn)
        /\ (Len(requests') > Len(requests) /\ Last(requests').op = "asx")
            => \A i \in (DOMAIN fmts') \ (DOMAIN fmts) :
                fmts'[i].format_id
                    = "ref" \o ToString(i - Len(fmts) - 1) \o "_" \o ExpectedBase(conn)
        /\ AppendsDirectRecord
            => Last(fmts').format_id
                  \in {ExpectedBase(conn), ExpectedBase(conn) \o "-" \o media.bitrate}
      ]_vars

\* C8 happens: a DASH expansion was named after the protocol and a direct record
\* after the connection kind.
C8_Witness ==
    /\ ie = "bbc"
    /\ \E i \in DOMAIN requests :
        requests[i].op = "dash" /\ requests[i].href = "h2" /\ requests[i].id = "http"
    /\ \E i \in DOMAIN fmts : fmts[i].format_id = "ck" /\ Url(fmts[i]) = "h1"

\* C9 as claimed: the bitrate is appended to the id of a direct or rtmp record
\* exactly when there is no supplier and the media has a numeric bitrate.
C9_BitrateAppended ==
    [][AppendsDirectRecord =>
        Last(fmts').format_id =
            IF ~Truthy(conn.supplier) /\ media.bitrate \in DOMAIN IntOf
            THEN ExpectedBase(conn) \o "-" \o media.bitrate
            ELSE ExpectedBase(conn)
      ]_vars

\* C9 amended: ... exactly when there is no supplier and the media has a
\* numeric bitrate other than 0.
C9_NonZeroBitrateAppended ==
    [][AppendsDirectRecord =>
        Last(fmts').format_id =
            IF ~Truthy(conn.supplier) /\ media.bitrate \in (DOMAIN IntOf) \ {"0"}
            THEN ExpectedBase(conn) \o "-" \o media.bitrate
            ELSE ExpectedBase(conn)
      ]_vars

\* C9 happens: an rtmp record without supplier got the bitrate 320 appended.
C9_Witness ==
    /\ ie = "bbc"
    /\ \E i \in DOMAIN fmts :
        /\ fmts[i].format_id = "rtmp-320"
        /\ "play_path" \in DOMAIN fmts[i]

\* the names of the records of an ASX document
RefNames == << "ref0_asx", "ref1_asx" >>

\* C10: a connection of supplier asx whose document is downloaded adds one
\* record per ref of the document, in its order, with the ref's href as url and
\* ref<i>_asx as format_id, i counting from 0.
C10_AsxRecords ==
    [][(/\ ie = "bbc" /\ pc = "expand" /\ pc' = "conns"
        /\ conn.supplier = "asx" /\ conn.href \notin urls) =>
            /\ Len(requests') = Len(requests) + 1
            /\ Last(requests').op = "asx"
            /\ Last(requests').href = conn.href
            /\ fmts' = fmts \o [i \in 1..Len(Last(requests').refs) |->
                                  [url |-> Last(requests').refs[i], format_id |-> RefNames[i]]]
      ]_vars

\* C10 happens: an ASX document with two refs gave two records, in its order.
C10_Witness ==
    /\ ie = "bbc"
    /\ Len(requests) > 0
    /\ Last(requests).op = "asx"
    /\ "refs" \in DOMAIN Last(requests)
    /\ Last(requests).refs = << "r2", "r1" >>
    /\ Len(fmts) = 2
    /\ fmts[1] = [url |-> "r2", format_id |-> "ref0_asx"]
    /\ fmts[2] = [url |-> "r1", format_id |-> "ref1_asx"]

\* the step appends the record of an rtmp connection
AppendsRtmpRecord == AppendsDirectRecord /\ conn.protocol = "rtmp"

\* the application of a connection, 'ondemand' when it has none
ApplicationOf(c) == IF c.application = Absent THEN "ondemand" ELSE c.application

\* C11: the record of an rtmp connection has url rtmp://<server>/<application>?<authString>,
\* app <application>?<authString> and play_path <identifier>, each value taken
\* as the connection gives it, the application being 'ondemand' when absent.
C11_RtmpTarget ==
    [][AppendsRtmpRecord =>
        /\ Last(fmts').url = "rtmp://" \o conn.server \o "/" \o ApplicationOf(conn)
                                \o "?" \o conn.authString
        /\ Last(fmts').app = ApplicationOf(conn) \o "?" \o conn.authString
        /\ Last(fmts').play_path = conn.identifier
      ]_vars

\* C11 happens: one rtmp record was built with the default application and one
\* with the application of its connection.
C11_Witness ==
    /\ ie = "bbc"
    /\ Len(fmts) = 2
    /\ "app" \in DOMAIN fmts[1] /\ "app" \in DOMAIN fmts[2]
    /\ fmts[1].url = "rtmp://fms.example/ondemand?token123"
    /\ fmts[1].app = "ondemand?token123"
    /\ fmts[1].play_path = "path/to/stream"
    /\ fmts[2].url = "rtmp://fms.example/a1?token123"
    /\ fmts[2].app = "a1?token123"
    /\ fmts[2].play_path = "path/to/stream"

\* the step handles one entry of a descriptor list: a connection, an item, a
\* video file or the link of the page
AtEntry ==
    \/ ie = "bbc" /\ pc = "expand"
    \/ ie = "tv2" /\ pc = "tv2_item"
    \/ ie = "tv5" /\ pc = "tv5_file"
    \/ ie = "yappy" /\ pc = "yappy_expand"

\* the url of that entry
EntryUrl ==
    IF ie = "bbc" THEN conn.href
    ELSE IF ie = "tv2" THEN video_url
    ELSE IF ie = "tv5" THEN conn.url
    ELSE conn.link

\* the transfer formats of the BBC by the extension of their manifests
ManifestExt == [z \in {"hls"} |-> "m3u8"] @@ [z \in {"dash"} |-> "mpd"] @@ [z \in {"hds"} |-> "f4m"]

\* what the site declares the entry to be: the transferFormat, the format or
\* mimetype, else the extension of the url
EntryKind ==
    IF ie = "bbc"
    THEN (IF conn.transferFormat \in DOMAIN ManifestExt THEN ManifestExt[conn.transferFormat]
          ELSE None)
    ELSE IF ~Truthy(EntryUrl) THEN None
    ELSE IF ie = "tv5"
    THEN (IF Truthy(conn.format) THEN conn.format
          ELSE IF conn.type \in DOMAIN ExtOfMimetype THEN ExtOfMimetype[conn.type]
          ELSE IF conn.type = "application/deferred" THEN None
          ELSE ExtOf[conn.url])
    ELSE ExtOf[EntryUrl]

\* the records the step appends
NewFormats ==
    IF Len(formats') > Len(formats) THEN SubSeq(formats', Len(formats) + 1, Len(formats'))
    ELSE IF Len(fmts') > Len(fmts) THEN SubSeq(fmts', Len(fmts) + 1, Len(fmts'))
    ELSE << >>

\* no record the step appends has the url of the entry
EntryNotAppended == \A i \in DOMAIN NewFormats : Url(NewFormats[i]) # EntryUrl

\* the expansions the step requested
NewExpansions ==
    SelectSeq(SubSeq(requests', Len(requests) + 1, Len(requests')),
              LAMBDA r : "out" \in DOMAIN r)

\* the step appends what the expansion it requested returned, and nothing when
\* it requested none or the expansion failed
OnlyVariantsAppended ==
    IF NewExpansions # << >> /\ NewExpansions[1].out.st = "ok"
    THEN /\ Len(NewFormats) = NewExpansions[1].out.n
         /\ {Url(NewFormats[i]) : i \in DOMAIN NewFormats}
                = {NewExpansions[1].href \o "/v" \o ToString(i) : i \in 1..NewExpansions[1].out.n}
    ELSE NewFormats = << >>

\* C12 as claimed: the url of an HLS, DASH, HDS or ISM manifest is never the url
\* of a record appended for it, in the BBC, TV2, TV5MONDE+ and Yappy collectors.
C12_ManifestNeverAppended ==
    [][(AtEntry /\ EntryKind \in {"m3u8", "mpd", "f4m", "ism"}) => EntryNotAppended]_vars

\* the manifests a collector has an expansion or a skip for
ExpandedKinds ==
    IF ie \in {"tv5", "yappy"} THEN {"m3u8", "mpd"}
    ELSE IF ie = "bbc" THEN {"m3u8", "mpd", "f4m"}
    ELSE {"m3u8", "mpd", "f4m", "ism"}

\* C12 amended: the url of an HLS or DASH manifest (and of an HDS one in the BBC
\* and TV2 collectors, of an ISM one in TV2) is never appended itself: the step
\* appends the records its expansion returned, or none when the expansion fails
\* or is skipped; TV5MONDE+ and Yappy append an HDS or ISM url as one direct
\* record.
C12_ExpandedManifestNeverAppended ==
    [][AtEntry =>
        /\ EntryKind \in ExpandedKinds =>
            /\ EntryNotAppended
            /\ (ie = "bbc" /\ conn.supplier = "asx") \/ OnlyVariantsAppended
        /\ (EntryKind \in {"f4m", "ism"} \ ExpandedKinds /\ ie \in {"tv5", "yappy"}) =>
            /\ Len(NewFormats) = 1
            /\ Url(NewFormats[1]) = EntryUrl
      ]_vars

\* C12 happens: TV5MONDE+ expanded an HLS and a DASH manifest and returned their
\* variants only.
C12_Witness ==
    /\ ie = "tv5" /\ pc = "done"
    /\ Len(requests) = 4
    /\ requests[2].op = "m3u8" /\ requests[2].href = "b.mp4" /\ requests[2].out.st = "ok"
    /\ requests[3].op = "mpd" /\ requests[3].href = "a.mpd" /\ requests[3].out.n = 0
    /\ Len(formats) = 2
    /\ \A i \in DOMAIN formats : Url(formats[i]) = "b.mp4/v" \o ToString(i)

\* the number a media attribute stands for, NoInt when it stands for none
Number(v) == IF v \in DOMAIN IntOf THEN IntOf[v] ELSE NoInt

\* the step appends one record with the href of the connection as url and the
\* width, height, bitrate and filesize of the media, and requests nothing
OneDirectRecord ==
    /\ pc' = "conns"
    /\ Len(fmts') = Len(fmts) + 1
    /\ SubSeq(fmts', 1, Len(fmts)) = fmts
    /\ requests' = requests
    /\ LET r == Last(fmts') IN
        /\ Url(r) = conn.href
        /\ r.filesize = Number(media.media_file_size)
        /\ media.kind = "video" =>
            /\ r.width = Number(media.width)
            /\ r.height = Number(media.height)
            /\ r.tbr = Number(media.bitrate)
        /\ media.kind = "audio" => r.abr = Number(media.bitrate)

\* the step handles a connection without adaptive transfer format
AtPlainConnection ==
    /\ ie = "bbc" /\ pc = "expand"
    /\ conn.transferFormat \notin {"dash", "hls", "hds"}

\* C13 as claimed: every http or https connection without adaptive transfer
\* format yields exactly one record, with its href and the attributes of the
\* media; one of another protocol than http, https and rtmp yields none; no
\* request is made for either.
C13_DirectRecord ==
    [][AtPlainConnection =>
        /\ conn.protocol \in {"http", "https"} => OneDirectRecord
        /\ conn.protocol \notin {"http", "https", "rtmp"} =>
            (fmts' = fmts /\ requests' = requests)
      ]_vars

\* C13 amended: ... provided the connection is not of supplier asx (an ASX
\* playlist is downloaded for it) and its href was not met before in this media
\* selection (it is skipped then).
C13_UnseenDirectRecord ==
    [][(AtPlainConnection /\ conn.supplier # "asx" /\ conn.href \notin urls) =>
        /\ conn.protocol \in {"http", "https"} => OneDirectRecord
        /\ conn.protocol \notin {"http", "https", "rtmp"} =>
            (fmts' = fmts /\ requests' = requests)
      ]_vars

\* C13 happens: of two connections read, an https connection gave the one record
\* of its video media, and nothing was requested for either.
C13_Witness ==
    /\ ie = "bbc" /\ pc = "conns" /\ nconn = 2
    /\ Len(requests) = 1
    /\ media.kind = "video" /\ media.bitrate = "320"
    /\ fmts = << [url |-> "h2", format_id |-> "https-320", filesize |-> 1000,
                  width |-> 640, height |-> 360, tbr |-> 320, vcodec |-> "h264"] >>

\* the step adds the formats of one version of the playlist
AddsVersionFormats ==
    /\ ie = "bbc_playlist" /\ pc = "pl_version" /\ pc' = "pl_versions"
    /\ Len(requests') > Len(requests)

\* one of the types names an audio-described rendition
IsAudioDescribed(types) ==
    \E i \in DOMAIN types : types[i] \in {"AudioDescribed", "DubbedAudioDescribed"}

\* the record carries the penalty
HasPenalty(f) == "language_preference" \in DOMAIN f /\ f.language_preference = 0 - 10

\* the records are of equal resolution, bitrate and size
SameQuality(a, b) ==
    \A k \in {"height", "width", "tbr", "abr", "filesize"} : Rank(a, k) = Rank(b, k)

\* C14: every format of a version one of whose types contains 'AudioDescribed'
\* is added with language_preference -10, every format of another version is
\* added without language_preference, no format is left out and the formats of
\* the versions before are left as they are; in the sorted result a penalised
\* record comes before every unpenalised record of equal quality.
C14_AudioDescribedPenalty ==
    /\ [][AddsVersionFormats =>
            LET call == Last(requests')
                got == call.result.formats
            IN  /\ Len(formats') = Len(formats) + Len(got)
                /\ SubSeq(formats', 1, Len(formats)) = formats
                /\ \A i \in DOMAIN got :
                    LET f == formats'[Len(formats) + i] IN
                        /\ Url(f) = Url(got[i])
                        /\ f.format_id = got[i].format_id
                        /\ IF IsAudioDescribed(call.types)
                           THEN HasPenalty(f)
                           ELSE "language_preference" \notin DOMAIN f
         ]_vars
    /\ []((ie = "bbc_playlist" /\ pc = "done") =>
            \A i, j \in DOMAIN formats :
                (HasPenalty(formats[i]) /\ ~HasPenalty(formats[j])
                 /\ SameQuality(formats[i], formats[j])) => i < j)

\* C14 happens: the Original version came first and the AudioDescribed one
\* second, both with one record of the same quality, and the sorted result has
\* the penalised record first.
C14_Witness ==
    /\ ie = "bbc_playlist" /\ pc = "done"
    /\ Len(requests) = 4
    /\ requests[2].op = "selector" /\ requests[2].types = << "Original" >>
    /\ requests[3].op = "selector" /\ requests[3].types = << "AudioDescribed" >>
    /\ Len(formats) = 2
    /\ Url(formats[1]) = "h2" /\ HasPenalty(formats[1])
    /\ Url(formats[2]) = "h1" /\ "language_preference" \notin DOMAIN formats[2]
    /\ SameQuality(formats[1], formats[2])

\* the ranking calls made so far, each with the list as it left it
SortCalls == SelectSeq(requests, LAMBDA r : r.op = "sort")

\* C15: the formats an extractor returns are the list as the last ranking call
\* left it: nothing is appended, removed or reordered after it.
C15_ReturnsLastRanking ==
    (pc = "done" /\ SortCalls # << >>) => formats = Last(SortCalls).sorted

\* the step is a ranking call
Ranks == ie = "rank" /\ Len(SortCalls') > Len(SortCalls)

\* C16: on the records of a list, ranking below is irreflexive, asymmetric and
\* transitive, and so is being ranked equal; a ranking call leaves no record
\* before one that ranks below it, and a ranking call on a list that no record
\* was added to since the last one leaves the order as it is.
C16_StrictWeakOrdering ==
    /\ [](ie = "rank" =>
            \A i, j, k \in DOMAIN formats :
                LET a == formats[i]
                    b == formats[j]
                    c == formats[k]
                IN  /\ ~FormatLess(a, a)
                    /\ FormatLess(a, b) => ~FormatLess(b, a)
                    /\ (FormatLess(a, b) /\ FormatLess(b, c)) => FormatLess(a, c)
                    /\ (~FormatLess(a, b) /\ ~FormatLess(b, a)
                        /\ ~FormatLess(b, c) /\ ~FormatLess(c, b))
                            => (~FormatLess(a, c) /\ ~FormatLess(c, a)))
    /\ [][Ranks =>
            /\ \A i, j \in DOMAIN formats' : i < j => ~FormatLess(formats'[j], formats'[i])
            /\ (SortCalls # << >> /\ Last(SortCalls).sorted = formats) => formats' = formats
         ]_vars

\* C16 happens: a list of three records of three different ranks was ranked
\* twice, and the second call left the order of the first.
C16_Witness ==
    /\ ie = "rank"
    /\ Len(SortCalls) = 2
    /\ SortCalls[1].sorted = SortCalls[2].sorted
    /\ Len(formats) = 3
    /\ formats = SortCalls[2].sorted
    /\ FormatLess(formats[1], formats[2]) /\ FormatLess(formats[2], formats[3])
    /\ Url(formats[1]) = "h2" /\ Url(formats[3]) = "h1"

\* the record has a url and nothing else
BareRecord(f) == DOMAIN f = {"url"}

\* a resolution or a bitrate of the record is known
KnowsQuality(f) == \E k \in {"height", "width", "tbr", "abr"} : k \in DOMAIN f /\ f[k] # NoInt

NotDemoted(f) ==
    /\ "quality" \in DOMAIN f => f.quality >= 0
    /\ "language_preference" \in DOMAIN f => f.language_preference >= 0
    /\ "ext" \in DOMAIN f => f.ext # "flv"

----------------------------------------------------------------------------
(* C18: a login or a password is needed *)

\* the errors that say a login or a password is needed
LoginErrors == {"LoginRequired", PasswordRequired}

\* the playback API of TV2 answered 401 SESSION_NOT_AUTHENTICATED at request i
SessionNotAuthenticated(i) ==
    /\ ie = "tv2"
    /\ requests[i].op = "playback"
    /\ requests[i].result = "SESSION_NOT_AUTHENTICATED"

\* the video data of 10play is member gated, a username or a password is not
\* given, and _get_bearer_token has been called
MemberGatedWithoutLogin ==
    /\ ie = "tenplay"
    /\ Len(requests) >= 1 /\ requests[1].result = "ok"
    /\ conn.memberGated = "true"
    /\ params.username = None \/ params.password = None
    /\ pc # "ten_token"

\* the Dropbox page asked for the password and none was given: request i is
\* the look-up of the sm_auth cookie, which only happens then
PasswordNotGiven(i) ==
    /\ ie = "dropbox"
    /\ requests[i].op = "cookie"

\* the extractor ended in a login/password-required error and request i is
\* the last it made
EndsLoginRequired(i) ==
    /\ pc = "raised"
    /\ error \in LoginErrors
    /\ error \notin {"ExtractorError:download", "GeoRestrictedError"}
    /\ i = Len(requests)

\* C18 (as stated): when TV2 answers 401 SESSION_NOT_AUTHENTICATED, when a
\* 10play video is member gated and no credentials are given, or when a Dropbox
\* link asks for a password and none is given, the extractor ends in a
\* login/password-required error, distinct from a fetch failure and from the
\* geo restriction, and makes no further request.
C18_LoginRequired ==
    /\ \A i \in DOMAIN requests :
        (SessionNotAuthenticated(i) \/ PasswordNotGiven(i)) => EndsLoginRequired(i)
    /\ MemberGatedWithoutLogin => EndsLoginRequired(1)

\* C18 (amended): the same, but for Dropbox only when there is no sm_auth
\* cookie either; with the cookie the page is downloaded again and the formats
\* are collected.
C18_LoginRequiredWithoutCookie ==
    /\ \A i \in DOMAIN requests :
        (SessionNotAuthenticated(i) \/ (PasswordNotGiven(i) /\ requests[i].result = "FALSE"))
            => EndsLoginRequired(i)
    /\ \A i \in DOMAIN requests :
        (PasswordNotGiven(i) /\ requests[i].result = "TRUE") => pc # "raised" \/ i < Len(requests)
    /\ MemberGatedWithoutLogin => EndsLoginRequired(1)

\* a member gated 10play video with a username and no password has ended in
\* the login-required error after the one request for the video data
C18_Witness ==
    /\ MemberGatedWithoutLogin
    /\ params.username = "u" /\ params.password = None
    /\ error = "LoginRequired"
    /\ Len(requests) = 1

----------------------------------------------------------------------------
(* C19: an unusable entry of a descriptor list *)

\* an encoding that is usable without a manifest: it has a url and is no HLS
DirectEncoding(encoding) ==
    Truthy(encoding.url) /\ EncodingExt(encoding) # "m3u8"

\* the first call of _extract_formats, on the list of 'videoLegacyEncodings',
\* has returned
LegacyEncodingsReturned ==
    /\ ie = "imdb" /\ pc = "imdb_page"
    /\ data.videoLegacyEncodings # NoDict

\* a step of process_video_files on a video file without a url
SkipsVideoFile ==
    ie = "tv5" /\ pc = "tv5_file" /\ ~Truthy(conn.url)

\* C19: an unusable entry of a descriptor list is skipped alone and the
\* remaining entries are still expanded: what _extract_formats returns for the
\* IMDb encodings is a list with the record of every encoding that has a url
\* and is no manifest, wherever it stands in the list, and a TV5MONDE+ video
\* file without a url leaves the formats as they are and the loop running.
C19_RemainingEntriesExpanded ==
    /\ [](LegacyEncodingsReturned =>
            \A i \in DOMAIN data.videoLegacyEncodings[1] :
                LET encoding == data.videoLegacyEncodings[1][i] IN
                DirectEncoding(encoding) =>
                    /\ returned # NoDict
                    /\ \E j \in DOMAIN returned[1] : returned[1][j].url = encoding.url)
    /\ [][SkipsVideoFile => (formats' = formats /\ pc' = "tv5_files" /\ error' = error)]_vars

----------------------------------------------------------------------------
(* C20: the pages of a playlist *)

\* the pages _entries has had so far, handed over or downloaded, in order
PagesHad == SelectSeq(requests, LAMBDA r : r.op \in {"given", "webpage"})

\* the downloads _entries has made so far
PageDownloads == SelectSeq(requests, LAMBDA r : r.op \in {"webpage", "failed"})

\* the ids of the first n pages, page after page
RECURSIVE IdsOf(_, _)
IdsOf(pages, n) ==
    IF n = 0 THEN << >> ELSE IdsOf(pages, n - 1) \o pages[n].webpage.ids

\* the page at hand has not been yielded yet
PageDue == pc = "ent_page" /\ data.webpage # NoDict

\* C20: with a 'page' query parameter _entries has exactly one page, downloads
\* at most that one, and yields its ids only; without it every page after the
\* first is downloaded from the next link of the page before, the ids are
\* yielded page after page in page order, and the generator ends at the
\* first page without a next link.
C20_PagesFollowed ==
    (ie = "bbc_entries" /\ pc # "ent_start") =>
        /\ entries = IdsOf(PagesHad, IF PageDue THEN Len(PagesHad) - 1 ELSE Len(PagesHad))
        /\ \A i \in DOMAIN PagesHad :
            /\ PagesHad[i].page_num = i
            /\ i > 1 => /\ PagesHad[i].op = "webpage"
                        /\ PagesHad[i].href = PagesHad[i - 1].webpage.next
                        /\ Truthy(PagesHad[i - 1].webpage.next)
        /\ data.single_page =>
            /\ Len(PagesHad) <= 1 /\ Len(PageDownloads) <= 1
            /\ pc = "done" => Len(PagesHad) = 1 /\ entries = PagesHad[1].webpage.ids
        /\ (~data.single_page /\ pc = "done") =>
            /\ PagesHad # << >>
            /\ ~Truthy(Last(PagesHad).webpage.next)

\* a playlist without a 'page' parameter has ended after three pages, the
\* first with two ids and the third with one
C20_Witness ==
    /\ ie = "bbc_entries" /\ pc = "done"
    /\ ~data.single_page
    /\ Len(PagesHad) = MaxPages
    /\ PagesHad[1].webpage.ids = << "p2", "p1" >>
    /\ PagesHad[3].webpage.ids = << "p1" >>
    /\ Len(entries) >= 3

----------------------------------------------------------------------------
(* C28: what _extract_formats returns *)

\* C28: ImdbIE._extract_formats returns a list, never None, whatever the
\* encodings are (an empty list, HLS manifests only, encodings without a url),
\* so that the extraction never ends in the AttributeError or TypeError of a
\* formats.extend on None.
C28_ReturnsList ==
    ie = "imdb" =>
        /\ pc = "imdb_page" => returned # NoDict
        /\ error \notin {"AttributeError", "TypeError"}

----------------------------------------------------------------------------
(* C25: deferred video files *)

\* process_video_files is at a video file of type application/deferred
AtDeferred ==
    /\ ie = "tv5" /\ pc = "tv5_file"
    /\ Truthy(conn.url)
    /\ conn.type = "application/deferred"

\* q starts with p
IsPrefix(p, q) == Len(p) <= Len(q) /\ SubSeq(q, 1, Len(p)) = p

\* what is left to do: the entries not yet drawn, the open lists, and the
\* position in the code
StepsLeft ==
    3 * (MaxEntries - nconn) + depth
    + (IF pc = "tv5_page" THEN 5 ELSE IF pc = "tv5_file" THEN 4
       ELSE IF pc = "tv5_files" THEN 2 ELSE IF pc = "tv5_sort" THEN 1 ELSE 0)

----------------------------------------------------------------------------
(* C26: the fallback to the legacy playlist *)

\* _download_playlist has gone on to the legacy playlist
Fallback ==
    pc = "pl_legacy" \/ \E i \in DOMAIN requests : requests[i].op = "legacy"

\* the HTTP status of the playlist JSON download
JsonStatus == requests[1].status

\* the media selector calls of the versions, in order
SelectorCalls == SelectSeq(requests, LAMBDA r : r.op = "selector")

\* a version of the playlist JSON has yielded at least one format
JsonYieldsFormats ==
    \E i \in DOMAIN SelectorCalls :
        SelectorCalls[i].result.st = "ok" /\ SelectorCalls[i].result.formats # << >>

\* the media selector of a version has raised an ExtractorError caused by HTTP status n
SelectorRaised(n) ==
    \E i \in DOMAIN SelectorCalls :
        SelectorCalls[i].result.st = "raise" /\ SelectorCalls[i].result.n = n

\* the extraction has ended in the error e and the legacy playlist was left alone
Propagates(e) == pc = "raised" /\ error = e /\ ~Fallback

\* C26 (as stated): _download_playlist goes on to the legacy playlist exactly
\* when the playlist JSON download fails with HTTP 404 or the JSON yields no
\* formats; any other ExtractorError propagates; when the JSON yields a format
\* the legacy playlist is never fetched.
C26_LegacyFallback ==
    (ie = "bbc_playlist" /\ pc # "pl_json") =>
        /\ Fallback => (JsonStatus = 404 \/ ~JsonYieldsFormats)
        /\ JsonStatus = 404 => Fallback
        /\ (~Fallback /\ pc \in {"pl_sort", "done"}) => JsonYieldsFormats
        /\ JsonStatus = 500 => Propagates("ExtractorError:500")
        /\ SelectorRaised(0) => Propagates("ExtractorError:0")
        /\ JsonYieldsFormats => ~Fallback

\* C26 (amended): _download_playlist goes on to the legacy playlist exactly
\* when an ExtractorError caused by HTTP 404 is raised by the playlist JSON
\* download or by the media selector of a version, or when the versions yield
\* no formats; any other ExtractorError propagates; when the versions yield a
\* format and none of their media selectors raises, the legacy playlist is
\* never fetched and the result is that of the JSON.
C26_LegacyFallbackOn404 ==
    (ie = "bbc_playlist" /\ pc # "pl_json") =>
        /\ Fallback => (JsonStatus = 404 \/ SelectorRaised(404) \/ ~JsonYieldsFormats)
        /\ JsonStatus = 404 => Fallback
        /\ SelectorRaised(404) => Fallback
        /\ (~Fallback /\ pc \in {"pl_sort", "done"}) => JsonYieldsFormats
        /\ JsonStatus = 500 => Propagates("ExtractorError:500")
        /\ SelectorRaised(0) => Propagates("ExtractorError:0")
        /\ (JsonYieldsFormats /\ ~SelectorRaised(404)) => ~Fallback

\* the first version yielded formats, the media selector of the second raised
\* an ExtractorError caused by HTTP 404, and the legacy playlist was fetched
C26_Witness ==
    /\ ie = "bbc_playlist" /\ pc = "done"
    /\ JsonStatus = 200
    /\ JsonYieldsFormats
    /\ SelectorRaised(404)
    /\ \E i \in DOMAIN requests : requests[i].op = "legacy"

----------------------------------------------------------------------------
(* C27: the callers of the legacy playlist extraction *)

\* C27: every caller of the legacy playlist extraction unpacks as many fields
\* as the callee returns: no extraction ends in the ValueError or TypeError of
\* an unpacking, and a playlist.sxml with a programme item and a title whose
\* media selector answered delivers its formats and subtitles.
C27_CallersUnpackResult ==
    ie \in {"bbc_sxml", "bbc_playlist"} =>
        /\ error \notin {"ValueError", "TypeError"}
        /\ (ie = "bbc_sxml" /\ requests # << >>) =>
              LET call == requests[1] IN
              (call.playlist = "programme" /\ call.result.st = "ok") =>
                  /\ pc = "done"
                  /\ subtitles = call.result.subtitles
                  /\ Len(formats) = Len(call.result.formats)

----------------------------------------------------------------------------
(* C24: the pager of a Yappy profile *)

\* the pager has to stop after the answer of request r
StopsAfter(r) ==
    \/ r.answer.st = "failed"
    \/ r.answer.next = NoInt
    \/ r.answer.next = NoPage
    \/ r.answer.next = r.page

\* the uuids of the first n answers, answer after answer
RECURSIVE UuidsOf(_, _)
UuidsOf(log, n) ==
    IF n = 0 THEN << >>
    ELSE UuidsOf(log, n - 1)
         \o SelectSeq(log[n].answer.results, LAMBDA vid : vid \notin {None, "not a dict"})

\* the stop conditions of get_entries: the first request is for page 1, each
\* later request is for the page of the next link of the answer before, which
\* did not stop the pager, the pager has returned when the last answer stops
\* it, and what it yielded are the uuids of the answers
PagerFollowsLinks ==
    /\ requests # << >> => requests[1].page = 1
    /\ \A i \in DOMAIN requests :
        i < Len(requests) =>
            /\ ~StopsAfter(requests[i])
            /\ requests[i + 1].page = requests[i].answer.next
    /\ (requests # << >> /\ StopsAfter(Last(requests))) => pc = "done"
    /\ pc = "done" => (requests # << >> /\ StopsAfter(Last(requests)))
    /\ entries = UuidsOf(requests, Len(requests))

\* C24 (as stated): the pager starts at page 1, stops without a next link,
\* without a page number in it, or when that page is the current one (a failed
\* download counts as an empty last page), and never requests a page twice.
C24_NeverSamePageTwice ==
    ie = "yappy_profile" =>
        /\ PagerFollowsLinks
        /\ \A i, j \in DOMAIN requests : requests[i].page = requests[j].page => i = j

\* C24 (amended): the same stop conditions, and the pager never requests a
\* page twice in a row; a next link that leads back to an earlier page is
\* followed.
C24_NeverSamePageInARow ==
    ie = "yappy_profile" =>
        /\ PagerFollowsLinks
        /\ \A i \in DOMAIN requests :
            i < Len(requests) => requests[i].page # requests[i + 1].page

\* the pager asked for page 1 and page 2 and stopped at page 2, whose next
\* link names page 2 again, after yielding entries from both
C24_Witness ==
    /\ ie = "yappy_profile" /\ pc = "done"
    /\ Len(requests) = 2
    /\ requests[2].page = 2
    /\ requests[2].answer.st = "ok"
    /\ requests[2].answer.next = 2
    /\ Len(entries) >= 2

----------------------------------------------------------------------------
(* C22 *)

\* the entries of the pages read so far, in the order the pages list them
RECURSIVE SeenUpTo(_, _)
SeenUpTo(log, n) ==
    IF n = 0 THEN << >>
    ELSE SeenUpTo(log, n - 1)
         \o (IF log[n].op = "page" /\ log[n].answer.st = "ok"
             THEN log[n].answer.webpage.vids ELSE << >>)

\* the place an entry is first seen at
FirstSeen(seen, from_url) ==
    CHOOSE i \in DOMAIN seen : seen[i] = from_url /\ \A j \in 1..(i - 1) : seen[j] # from_url

YieldedOnceInOrder ==
    LET seen == SeenUpTo(requests, Len(requests)) IN
    /\ \A i, j \in DOMAIN entries : entries[i] = entries[j] => i = j
    /\ \A i \in DOMAIN entries : \E k \in DOMAIN seen : seen[k] = entries[i]
    /\ \A i, j \in DOMAIN entries :
        i < j => FirstSeen(seen, entries[i]) < FirstSeen(seen, entries[j])

NeverYieldedAgain ==
    /\ IsPrefix(entries, entries')
    /\ \A k \in (Len(entries) + 1)..Len(entries') :
        \A i \in DOMAIN entries : entries[i] # entries'[k]

\* C22: over the pages of an XVideos playlist each entry url is yielded at
\* most once, the entries come in the order they are first seen in, and a
\* round of the loop only adds entries not yielded before
C22_YieldedOnce ==
    [][(ie \in XVideosClasses) => NeverYieldedAgain]_vars
    /\ [](ie \in XVideosClasses => YieldedOnceInOrder)

\* a second page repeats an entry of the first and of itself, and it is
\* yielded once
C22_Witness ==
    /\ ie = "xv_playlist" /\ Len(requests) = 3
    /\ requests[2].answer.st = "ok" /\ requests[2].answer.webpage.vids = << "v1", "v2" >>
    /\ requests[3].answer.st = "ok" /\ requests[3].answer.webpage.vids = << "v3", "v1", "v3" >>
    /\ entries = << "v1", "v2", "v3" >>

----------------------------------------------------------------------------
(* C23 *)

\* the page requests of the loop
PageRequests == {i \in DOMAIN requests : requests[i].op = "page"}

\* what the round of request i ended with: the stop flag of _extract_videos,
\* the pnum of the url, or a page without successor
LoopEnds(i) ==
    LET url == requests[1].url
        webpage == requests[i].answer.webpage
    IN  \/ url.pnum # NoInt
        \/ _extract_videos(url, webpage).stop
        \/ IF url.class = "xv_channel" /\ ~webpage.json
           THEN webpage.last_act \in {NoInt, requests[i].url.num}
           ELSE ~webpage.json /\ webpage.next = NoInt

\* C23: the loop of an XVideos playlist has ended exactly when the round of
\* its last page had a pnum, a stop flag or no next page, every page it
\* requests is at a url, and no request fails for what it is given as url
C23_PaginationStops ==
    ie \in XVideosClasses /\ PageRequests # {} =>
        LET last == Len(requests) IN
        /\ \A i \in PageRequests : requests[i].url.type = "str"
        /\ error # "AttributeError"
        /\ requests[last].answer.st = "ok" /\ pc # "raised" => (pc = "done" <=> LoopEnds(last))

----------------------------------------------------------------------------
(* C21 *)

\* the pages requested of the episodes of a programme
EpisodePages == {i \in DOMAIN requests : requests[i].op = "page"}

\* the seasons of the first page, one when it has no slices
Seasons == 1..Len(SlicesOf(requests))

\* C21: the walk of the episodes does not end in an error of its own; with a
\* page in the url one page is requested, with a seriesId the pages of one
\* season, and without both a walk that has ended has been through every
\* season
C21_SeasonsWalked ==
    ie = "bbc_iplayer" /\ EpisodePages # {} =>
        LET query == requests[1].query IN
        /\ error # "IndexError"
        /\ query.page => Cardinality(EpisodePages) = 1
        /\ query.seriesId => \A i \in EpisodePages : requests[i].season_n = 1
        /\ pc = "done" /\ ~query.page /\ ~query.seriesId =>
            \A n \in Seasons : \E i \in EpisodePages : requests[i].season_n = n

====
